---- MODULE Spec2Model ----
(***************************************************************************)
(* Adaptive pattern detection engine (backend/pattern_detection/           *)
(* adaptive_detectors.py) over a small graph database.                     *)
(*                                                                         *)
(* Encodings.                                                              *)
(*  - Identifier names (labels, property names, keywords) are strings;     *)
(*    Chars gives the characters of each, so that Python's `kw in          *)
(*    name.lower()` is computed on the characters.                         *)
(*  - Python None is the value None; an f-string prints it as "None".      *)
(*  - A database value is a tagged record [t, v]: t is "str", "int",       *)
(*    "bytes", "null" or "list" (a list property holding one string), v an *)
(*    integer that names the value; values of one type sort as their v.    *)
(*  - A confidence score is the exact rational n/d, [n |-> n, d |-> d].    *)
(***************************************************************************)
EXTENDS Integers, Sequences, FiniteSets, TLC

VARIABLES db, schema, trading_elements, activities, queryLog, lastCall, probe,
          heap, schema_cache, failing, calls,
          monitoring_config, monitoring_task, tasks, surveillance_agent, phase

vars == <<db, schema, trading_elements, activities, queryLog, lastCall, probe,
          heap, schema_cache, failing, calls,
          monitoring_config, monitoring_task, tasks, surveillance_agent, phase>>

\* the globals of main.py about continuous monitoring, the tasks created on
\* the event loop, and the phase of the lifespan of the application
monitoring == <<monitoring_config, monitoring_task, tasks, surveillance_agent, phase>>

\* the state of the module-level schema_discovery and of the calls on it
discovery == <<heap, schema_cache, failing, calls>>

\* ------------------------------------------------------------------ bounds
MaxTx == 4
MaxTotal == 20
MaxItems == 11

\* ------------------------------------------------------- program constants
IdLimit == 10
QueryItemLimit == 10
MatchThreshold == 40
SampleLimit == 5

None == "<None>"

\* None where the value would otherwise be a record (a config, a query)
NoneRecord == [none |-> None]

\* ------------------------------------------------------------------ strings
Chars ==
  "timestamp" :> <<"t","i","m","e","s","t","a","m","p">> @@
  "time" :> <<"t","i","m","e">> @@
  "date" :> <<"d","a","t","e">> @@
  "created" :> <<"c","r","e","a","t","e","d">> @@
  "updated" :> <<"u","p","d","a","t","e","d">> @@
  "when" :> <<"w","h","e","n">> @@
  "status" :> <<"s","t","a","t","u","s">> @@
  "state" :> <<"s","t","a","t","e">> @@
  "condition" :> <<"c","o","n","d","i","t","i","o","n">> @@
  "id" :> <<"i","d">> @@
  "uuid" :> <<"u","u","i","d">> @@
  "guid" :> <<"g","u","i","d">> @@
  "key" :> <<"k","e","y">> @@
  "security" :> <<"s","e","c","u","r","i","t","y">> @@
  "instrument" :> <<"i","n","s","t","r","u","m","e","n","t">> @@
  "symbol" :> <<"s","y","m","b","o","l">> @@
  "cancel" :> <<"c","a","n","c","e","l">> @@
  "abort" :> <<"a","b","o","r","t">> @@
  "reject" :> <<"r","e","j","e","c","t">> @@
  "transaction" :> <<"t","r","a","n","s","a","c","t","i","o","n">> @@
  "transaction_id" :> <<"t","r","a","n","s","a","c","t","i","o","n","_","i","d">> @@
  "trader_id" :> <<"t","r","a","d","e","r","_","i","d">> @@
  "name" :> <<"n","a","m","e">> @@
  "price" :> <<"p","r","i","c","e">> @@
  "created_at" :> <<"c","r","e","a","t","e","d","_","a","t">> @@
  "amount" :> <<"a","m","o","u","n","t">> @@
  "trader" :> <<"t","r","a","d","e","r">> @@
  "user" :> <<"u","s","e","r">> @@
  "client" :> <<"c","l","i","e","n","t">> @@
  "account" :> <<"a","c","c","o","u","n","t">> @@
  "participant" :> <<"p","a","r","t","i","c","i","p","a","n","t">> @@
  "order" :> <<"o","r","d","e","r">> @@
  "request" :> <<"r","e","q","u","e","s","t">> @@
  "instruction" :> <<"i","n","s","t","r","u","c","t","i","o","n">> @@
  "trade" :> <<"t","r","a","d","e">> @@
  "execution" :> <<"e","x","e","c","u","t","i","o","n">> @@
  "deal" :> <<"d","e","a","l">> @@
  "asset" :> <<"a","s","s","e","t">> @@
  "stock" :> <<"s","t","o","c","k">> @@
  "value" :> <<"v","a","l","u","e">> @@
  "cost" :> <<"c","o","s","t">> @@
  "quantity" :> <<"q","u","a","n","t","i","t","y">> @@
  "volume" :> <<"v","o","l","u","m","e">> @@
  "size" :> <<"s","i","z","e">> @@
  "Created_At" :> <<"C","r","e","a","t","e","d","_","A","t">> @@
  "Transaction" :> <<"T","r","a","n","s","a","c","t","i","o","n">> @@
  "Trader" :> <<"T","r","a","d","e","r">> @@
  "Security" :> <<"S","e","c","u","r","i","t","y">> @@
  "Order" :> <<"O","r","d","e","r">> @@
  "CANCELLED" :> <<"C","A","N","C","E","L","L","E","D">> @@
  "FILLED" :> <<"F","I","L","L","E","D">>

LowerChar(c) ==
  CASE c = "A" -> "a" [] c = "C" -> "c" [] c = "D" -> "d" [] c = "E" -> "e"
    [] c = "F" -> "f" [] c = "I" -> "i" [] c = "L" -> "l" [] c = "N" -> "n"
    [] c = "O" -> "o" [] c = "S" -> "s" [] c = "T" -> "t"
    [] OTHER -> c

\* str.lower(), of every name
LowerOf == [name \in DOMAIN Chars |-> [i \in DOMAIN Chars[name] |-> LowerChar(Chars[name][i])]]

Lower(name) == LowerOf[name]

\* needle in hay, on character sequences
Contains(hay, needle) ==
  \E i \in 0..(Len(hay) - Len(needle)) :
     SubSeq(hay, i + 1, i + Len(needle)) = needle

\* the pairs <<keyword, name>> with `keyword in name.lower()`
KeywordHits ==
  {p \in (DOMAIN Chars) \X (DOMAIN Chars) : Contains(LowerOf[p[2]], Chars[p[1]])}

\* `keyword in name.lower()`
KeywordIn(keyword, name) == <<keyword, name>> \in KeywordHits

\* f-string interpolation of a name or of None
Fmt(x) == IF x = None THEN "None" ELSE x

\* ----------------------------------------------------------------- helpers
Min(a, b) == IF a <= b THEN a ELSE b

\* list[:n]
Take(s, n) == SubSeq(s, 1, Min(n, Len(s)))

RECURSIVE SeqSum(_)
SeqSum(s) == IF s = <<>> THEN 0 ELSE Head(s) + SeqSum(Tail(s))

Range(s) == {s[i] : i \in DOMAIN s}

\* ---------------------------------------------------------------- database
(***************************************************************************)
(* db is the graph database behind db_connection.execute_query:            *)
(*   txs       the Transaction nodes, in the order the database returns    *)
(*             them; a node is [trader, status, age, conn]: the Trader it  *)
(*             is linked to, its status value, its age in hours, whether   *)
(*             a CONNECTED_TO relationship leaves it                       *)
(*   txProps   the property names the Transaction nodes carry, in the      *)
(*             order a node lists them                                     *)
(*   linkRel   the relationship type linking Transaction to Trader nodes   *)
(*   relTypes  the relationship types db.relationshipTypes() lists         *)
(*   idShape   the kind of value the id property holds                     *)
(*   security  the symbol of the Security the transactions INVOLVE, or     *)
(*             None when there is no Security node                         *)
(*   secLinks  the number of Security nodes each transaction INVOLVES      *)
(*   orders    number of Order nodes not older than 1 hour, not older than *)
(*             2 hours, and in total                                       *)
(*   accountLookup  "down" when the account query raises                   *)
(***************************************************************************)
Lookbacks == {1, 2}
Statuses == {"CANCELLED", "FILLED"}
Null == [t |-> "null", v |-> 0]

TxKinds ==
  <<[trader |-> "T1", status |-> "CANCELLED", age |-> 1, conn |-> FALSE],
    [trader |-> "T1", status |-> "FILLED", age |-> 1, conn |-> FALSE],
    [trader |-> "T2", status |-> "CANCELLED", age |-> 1, conn |-> FALSE],
    [trader |-> "T2", status |-> "FILLED", age |-> 1, conn |-> FALSE],
    [trader |-> "T1", status |-> "CANCELLED", age |-> 2, conn |-> TRUE]>>

\* the populations of MaxTx transactions, each listed in one order
TxPopulations ==
  {[i \in 1..MaxTx |-> TxKinds[k[i]]] :
     k \in {f \in [1..MaxTx -> DOMAIN TxKinds] :
              \A i \in 1..(MaxTx - 1) : f[i] <= f[i + 1]}}

TraderProps == <<"trader_id", "name">>
SecurityProps == <<"symbol", "name">>
OrderProps == <<"id", "created_at">>

TxPropChoices ==
  {<<"transaction_id", "timestamp", "status">>,
   <<"transaction_id", "timestamp">>,
   <<"transaction_id", "status", "price">>,
   <<"timestamp", "status">>,
   <<"transaction_id", "created_at", "status", "symbol">>,
   <<"transaction_id", "Created_At", "status">>}

RelChoices ==
  {[linkRel |-> "PLACED_BY", relTypes |-> {"PLACED_BY", "EXECUTED_BY", "OWNS", "INVOLVES"}],
   [linkRel |-> "PLACED_BY", relTypes |-> {"PLACED_BY", "INVOLVES"}],
   [linkRel |-> "EXECUTED_BY", relTypes |-> {"EXECUTED_BY", "OWNS"}],
   [linkRel |-> "EXECUTED_BY", relTypes |-> {"EXECUTED_BY"}]}

IdShapes == {"str", "int", "bytes", "list"}
Securities == {"AAPL", None}

OrderChoices ==
  {[recent |-> (1 :> 0 @@ 2 :> 0), total |-> 0],
   [recent |-> (1 :> 6 @@ 2 :> 60), total |-> 100],
   [recent |-> (1 :> 20 @@ 2 :> 20), total |-> 100]}

Baseline ==
  [txProps |-> <<"transaction_id", "timestamp", "status">>,
   rel |-> [linkRel |-> "PLACED_BY",
            relTypes |-> {"PLACED_BY", "EXECUTED_BY", "OWNS", "INVOLVES"}],
   idShape |-> "str",
   security |-> "AAPL",
   secLinks |-> 1,
   orders |-> [recent |-> (1 :> 0 @@ 2 :> 0), total |-> 0]]

\* a transaction that INVOLVES two Security nodes (a pair, a spread)
SecLinkChoices == {1, 2}

\* the databases checked: every population, with the baseline settings changed
\* in one respect at a time, and a Transaction that carries its symbol with
\* either number of Security links
Settings ==
  {[Baseline EXCEPT !.txProps = p] : p \in TxPropChoices} \cup
  {[Baseline EXCEPT !.rel = r] : r \in RelChoices} \cup
  {[Baseline EXCEPT !.idShape = s] : s \in IdShapes} \cup
  {[Baseline EXCEPT !.security = s] : s \in Securities} \cup
  {[Baseline EXCEPT !.orders = o] : o \in OrderChoices} \cup
  {[Baseline EXCEPT !.secLinks = l] : l \in SecLinkChoices} \cup
  {[Baseline EXCEPT !.secLinks = l,
                    !.txProps = <<"transaction_id", "created_at", "status", "symbol">>] :
     l \in SecLinkChoices}

Database(pop, s) ==
  [txs |-> pop, txProps |-> s.txProps, linkRel |-> s.rel.linkRel,
   relTypes |-> s.rel.relTypes, idShape |-> s.idShape,
   security |-> s.security, secLinks |-> s.secLinks, orders |-> s.orders,
   accountLookup |-> "up"]

Databases == {Database(pop, s) : pop \in TxPopulations, s \in Settings}

\* ------------------------------------------------------------------ schema
(***************************************************************************)
(* discover_full_schema issues one catalog sub-query per piece of the      *)
(* snapshot; fails is the set of sub-queries whose execute_query raises.   *)
(* Each helper catches the exception and returns its empty value.          *)
(***************************************************************************)
SubQueries ==
  {"labels", "relationship_types", "property_keys", "node_properties",
   "node_count", "relationship_properties", "relationship_patterns",
   "indexes", "constraints"}

\* what CALL db.labels() lists, ORDER BY label
NodeLabels(d) ==
  (IF d.orders.total > 0 THEN <<"Order">> ELSE <<>>) \o <<"Security", "Trader">> \o
  (IF d.txs # <<>> THEN <<"Transaction">> ELSE <<>>)

\* the property names the sampled nodes of a label carry, in dict order
LabelProps(d, label) ==
  CASE label = "Transaction" -> d.txProps
    [] label = "Trader" -> TraderProps
    [] label = "Security" -> IF d.security = None THEN <<>> ELSE SecurityProps
    [] OTHER -> IF d.orders.total > 0 THEN OrderProps ELSE <<>>

\* what MATCH (n:label) RETURN count(n) answers
LabelCount(d, label) ==
  CASE label = "Transaction" -> Len(d.txs)
    [] label = "Trader" -> Cardinality({d.txs[i].trader : i \in DOMAIN d.txs})
    [] label = "Security" -> IF d.security = None THEN 0 ELSE d.secLinks
    [] OTHER -> d.orders.total

\* the (source, type, target) triples, most frequent first
RelationshipPatterns(d) ==
  LET link == [source_labels |-> <<"Transaction">>, relationship_type |-> d.linkRel,
               target_labels |-> <<"Trader">>, count |-> Len(d.txs)]
      involves == [source_labels |-> <<"Transaction">>, relationship_type |-> "INVOLVES",
                   target_labels |-> <<"Security">>, count |-> Len(d.txs) * d.secLinks]
  IN IF d.txs = <<>> THEN <<>>
     ELSE IF d.security = None \/ "INVOLVES" \notin d.relTypes THEN <<link>>
     ELSE IF d.secLinks > 1 THEN <<involves, link>> ELSE <<link, involves>>

\* what SHOW INDEXES and SHOW CONSTRAINTS answer
Indexes(d) == <<[name |-> "transaction_index", state |-> "ONLINE"]>>
Constraints(d) == <<[name |-> "trader_unique", type |-> "UNIQUENESS"]>>

GetNodeLabels(d, fails) == IF "labels" \in fails THEN <<>> ELSE NodeLabels(d)

\* the list is read for membership only
GetRelationshipTypes(d, fails) ==
  IF "relationship_types" \in fails THEN {} ELSE d.relTypes

\* the list is read by no code
GetPropertyKeys(d, fails) ==
  IF "property_keys" \in fails THEN {}
  ELSE UNION {Range(LabelProps(d, l)) : l \in Range(NodeLabels(d))}

\* the keys of the properties dict, in dict order
GetNodeProperties(d, label, fails) ==
  IF "node_properties" \in fails THEN <<>> ELSE LabelProps(d, label)

GetNodeCount(d, label, fails) ==
  IF "node_count" \in fails THEN 0 ELSE LabelCount(d, label)

\* the relationships carry no properties
GetRelationshipProperties(d, rel_type, fails) == <<>>

DiscoverRelationshipPatterns(d, fails) ==
  IF "relationship_patterns" \in fails THEN <<>> ELSE RelationshipPatterns(d)

GetIndexes(d, fails) == IF "indexes" \in fails THEN <<>> ELSE Indexes(d)

GetConstraints(d, fails) == IF "constraints" \in fails THEN <<>> ELSE Constraints(d)

\* the dict literal of discover_full_schema: five pieces queried, four empty
SchemaLiteral(d, fails) ==
  [node_labels |-> GetNodeLabels(d, fails),
   relationship_types |-> GetRelationshipTypes(d, fails),
   property_keys |-> GetPropertyKeys(d, fails),
   node_properties |-> <<>>,
   relationship_properties |-> <<>>,
   node_counts |-> <<>>,
   relationship_patterns |-> <<>>,
   indexes |-> GetIndexes(d, fails),
   constraints |-> GetConstraints(d, fails)]

\* a label whose sampling fails is left out of the maps
WithLabelSkippingFailures(d, fails, schema_dict, label) ==
  IF "node_properties" \in fails THEN schema_dict
  ELSE [schema_dict EXCEPT
          !.node_properties = (label :> GetNodeProperties(d, label, fails)) @@ @,
          !.node_counts = (label :> GetNodeCount(d, label, fails)) @@ @]

\* schema['node_properties'][label] = ...; schema['node_counts'][label] = ...
WithLabel(d, fails, schema_dict, label) ==
  [schema_dict EXCEPT
     !.node_properties = (label :> GetNodeProperties(d, label, fails)) @@ @,
     !.node_counts = (label :> GetNodeCount(d, label, fails)) @@ @]

\* schema['relationship_patterns'] = self._discover_relationship_patterns()
WithPatterns(d, fails, schema_dict) ==
  [schema_dict EXCEPT !.relationship_patterns = DiscoverRelationshipPatterns(d, fails)]

\* schema['relationship_properties'][rel_type] = ...
WithRelType(d, fails, schema_dict, rel_type) ==
  [schema_dict EXCEPT
     !.relationship_properties = (rel_type :> GetRelationshipProperties(d, rel_type, fails)) @@ @]

RECURSIVE WithLabels(_, _, _, _)
WithLabels(d, fails, schema_dict, labels) ==
  IF labels = <<>> THEN schema_dict
  ELSE WithLabels(d, fails, WithLabel(d, fails, schema_dict, Head(labels)), Tail(labels))

RECURSIVE WithRelTypes(_, _, _, _)
WithRelTypes(d, fails, schema_dict, rel_types) ==
  IF rel_types = {} THEN schema_dict
  ELSE WithRelTypes(d, fails,
                    WithRelType(d, fails, schema_dict, CHOOSE r \in rel_types : TRUE),
                    rel_types \ {CHOOSE r \in rel_types : TRUE})

\* the snapshot a whole run of the build leaves
BuildSchema(d, fails) ==
  WithRelTypes(d, fails,
               WithPatterns(d, fails,
                            WithLabels(d, fails, SchemaLiteral(d, fails),
                                       GetNodeLabels(d, fails))),
               GetRelationshipTypes(d, fails))

\* discover_full_schema with every sub-query answered
DiscoverFullSchema(d) == BuildSchema(d, {})

\* the keys of the role index find_trading_related_nodes returns
TradingElementKeys ==
  {"potential_trader_nodes", "potential_order_nodes", "potential_trade_nodes",
   "potential_instrument_nodes", "temporal_properties", "price_properties",
   "quantity_properties"}

\* trading_indicators, each list in its order
TradingIndicators ==
  [trader_keywords |-> <<"trader", "user", "client", "account", "participant">>,
   order_keywords |-> <<"order", "request", "instruction">>,
   trade_keywords |-> <<"trade", "execution", "transaction", "deal">>,
   instrument_keywords |-> <<"instrument", "security", "symbol", "asset", "stock">>,
   price_keywords |-> <<"price", "amount", "value", "cost">>,
   quantity_keywords |-> <<"quantity", "volume", "size", "amount">>,
   time_keywords |-> <<"time", "timestamp", "date", "created", "updated">>]

\* the keywords of a list that the lower-cased name contains, in list order
RECURSIVE Matching(_, _)
Matching(keywords, name) ==
  IF keywords = <<>> THEN <<>>
  ELSE (IF KeywordIn(Head(keywords), name) THEN <<Head(keywords)>> ELSE <<>>)
       \o Matching(Tail(keywords), name)

\* one entry per keyword the label contains
LabelEntries(label, keywords) ==
  [i \in DOMAIN Matching(keywords, label) |->
     [label |-> label, reason |-> Matching(keywords, label)[i]]]

\* prop_name in properties, for the lower-cased prop_name
HasKey(properties, prop_name) ==
  \E i \in DOMAIN properties : Chars[properties[i]] = prop_name

\* one entry per keyword the lower-cased property name contains; known tells
\* whether properties[prop_name] finds the key
PropertyEntries(label, properties, prop, keywords) ==
  [i \in DOMAIN Matching(keywords, prop) |->
     [label |-> label, property |-> Lower(prop),
      known |-> HasKey(properties, Lower(prop))]]

RECURSIVE PropertiesEntries(_, _, _, _)
PropertiesEntries(label, properties, props, keywords) ==
  IF props = <<>> THEN <<>>
  ELSE PropertyEntries(label, properties, Head(props), keywords)
       \o PropertiesEntries(label, properties, Tail(props), keywords)

\* the entries of the labels of the catalog, in dict order
RECURSIVE NodeEntries(_, _, _)
NodeEntries(s, labels, keywords) ==
  IF labels = <<>> THEN <<>>
  ELSE LabelEntries(Head(labels), keywords) \o NodeEntries(s, Tail(labels), keywords)

RECURSIVE RoleEntries(_, _, _)
RoleEntries(s, labels, keywords) ==
  IF labels = <<>> THEN <<>>
  ELSE PropertiesEntries(Head(labels), s.node_properties[Head(labels)],
                         s.node_properties[Head(labels)], keywords)
       \o RoleEntries(s, Tail(labels), keywords)

\* identified_nodes, when every properties[prop_name] finds its key
IdentifiedNodes(s) ==
  [potential_trader_nodes |-> NodeEntries(s, s.node_labels, TradingIndicators.trader_keywords),
   potential_order_nodes |-> NodeEntries(s, s.node_labels, TradingIndicators.order_keywords),
   potential_trade_nodes |-> NodeEntries(s, s.node_labels, TradingIndicators.trade_keywords),
   potential_instrument_nodes |-> NodeEntries(s, s.node_labels, TradingIndicators.instrument_keywords),
   temporal_properties |-> RoleEntries(s, s.node_labels, TradingIndicators.time_keywords),
   price_properties |-> RoleEntries(s, s.node_labels, TradingIndicators.price_keywords),
   quantity_properties |-> RoleEntries(s, s.node_labels, TradingIndicators.quantity_keywords)]

\* properties[prop_name] raises KeyError
RaisesKeyError(index) ==
  \E role \in {"temporal_properties", "price_properties", "quantity_properties"} :
    \E i \in DOMAIN index[role] : ~index[role][i].known

\* find_trading_related_nodes on a snapshot: the index, or the exception
FindTradingRelatedNodes(s) ==
  IF RaisesKeyError(IdentifiedNodes(s)) THEN [raised |-> TRUE]
  ELSE [raised |-> FALSE, index |-> IdentifiedNodes(s)]

\* the schema _initialize_schema falls back to
EmptySchema == [node_labels |-> <<>>, relationship_types |-> {}, node_properties |-> <<>>]

\* the empty dict
EmptyDict == <<>>

\* _initialize_schema, had the except branch left self.schema as assigned
InitializeSchemaKeepsSnapshot(s) ==
  IF FindTradingRelatedNodes(s).raised
    THEN [schema |-> s, trading_elements |-> EmptyDict]
  ELSE [schema |-> s, trading_elements |-> FindTradingRelatedNodes(s).index]

\* _initialize_schema: the snapshot and the index, or the fallback of both
InitializeSchema(s) ==
  IF FindTradingRelatedNodes(s).raised
    THEN [schema |-> EmptySchema, trading_elements |-> EmptyDict]
  ELSE [schema |-> s, trading_elements |-> FindTradingRelatedNodes(s).index]

\* self.schema['node_properties'].get(label, {})
NodeProps(s, label) ==
  IF label \in DOMAIN s.node_properties THEN s.node_properties[label] ELSE <<>>

\* ----------------------------------------------------------- config finders
\* first property, in dict order, whose lower-cased name contains a keyword
FirstKeywordProperty(properties, keywords) ==
  LET hits == {i \in DOMAIN properties :
                 \E k \in keywords : KeywordIn(k, properties[i])}
  IN IF hits = {} THEN None
     ELSE properties[CHOOSE i \in hits : \A j \in hits : i <= j]

TimeKeywords == {"timestamp", "time", "date", "created", "updated", "when"}
StatusKeywords == {"status", "state", "condition"}
SecurityKeywords == {"security", "instrument", "symbol"}

\* the first property, whatever its name
FindTemporalPropertyNoKeywordCheck(properties) ==
  IF properties = <<>> THEN None ELSE properties[1]

\* the keywords in the order of the list time_keywords
TimeKeywordOrder == <<"timestamp", "time", "date", "created", "updated", "when">>

\* the search with the loops exchanged: the first keyword, in list order,
\* that some property contains decides, and its first property is returned
FindTemporalPropertyByKeyword(properties) ==
  LET hits == {k \in DOMAIN TimeKeywordOrder :
                 \E i \in DOMAIN properties : KeywordIn(TimeKeywordOrder[k], properties[i])}
  IN IF hits = {} THEN None
     ELSE FirstKeywordProperty(properties,
                               {TimeKeywordOrder[CHOOSE k \in hits : \A j \in hits : k <= j]})

FindTemporalProperty(properties) == FirstKeywordProperty(properties, TimeKeywords)

FindStatusProperty(properties) == FirstKeywordProperty(properties, StatusKeywords)

FindSecurityProperty(properties) == FirstKeywordProperty(properties, SecurityKeywords)

\* an exact id/uuid/guid name returns at once; otherwise the first name that
\* contains "id" or "key"
FindIdProperty(node_properties) ==
  LET exact == {i \in DOMAIN node_properties :
                  Lower(node_properties[i]) \in {Chars["id"], Chars["uuid"], Chars["guid"]}}
      cands == {i \in DOMAIN node_properties :
                  KeywordIn("id", node_properties[i]) \/ KeywordIn("key", node_properties[i])}
      first(S) == CHOOSE i \in S : \A j \in S : i <= j
  IN IF exact # {} THEN node_properties[first(exact)]
     ELSE IF cands # {} THEN node_properties[first(cands)]
     ELSE None

\* the labels of the snapshot whose catalog has a temporal property
TemporalLabels(s) ==
  SelectSeq(s.node_labels, LAMBDA l : FindTemporalProperty(NodeProps(s, l)) # None)

\* config resolution, had it taken the first entity type with a temporal
\* property when 'Transaction' has no catalog
IdentifySpoofingElementsAnyNode(s) ==
  LET primary_node == IF NodeProps(s, "Transaction") # <<>> \/ TemporalLabels(s) = <<>>
                        THEN "Transaction" ELSE Head(TemporalLabels(s))
      props == NodeProps(s, primary_node)
      config == [primary_node |-> primary_node,
                 primary_node_properties |-> props,
                 time_property |-> FindTemporalProperty(props),
                 status_property |-> FindStatusProperty(props),
                 entity_connection |-> [relationship |-> "PLACED_BY",
                                        target_label |-> "Trader",
                                        direction |-> "outgoing"]]
  IN IF props = <<>> THEN NoneRecord
     ELSE IF config.time_property # None THEN config ELSE NoneRecord

\* _identify_spoofing_elements: the entity connection is PLACED_BY to Trader
\* whatever the schema lists
IdentifySpoofingElements(s) ==
  LET transaction_props == NodeProps(s, "Transaction")
      config == [primary_node |-> "Transaction",
                 primary_node_properties |-> transaction_props,
                 time_property |-> FindTemporalProperty(transaction_props),
                 status_property |-> FindStatusProperty(transaction_props),
                 entity_connection |-> [relationship |-> "PLACED_BY",
                                        target_label |-> "Trader",
                                        direction |-> "outgoing"]]
  IN IF transaction_props = <<>> THEN NoneRecord
     ELSE IF config.time_property # None THEN config ELSE NoneRecord

\* _identify_layering_elements
IdentifyLayeringElements(s) ==
  LET transaction_props == NodeProps(s, "Transaction")
      config == [primary_node |-> "Transaction",
                 primary_node_properties |-> transaction_props,
                 time_property |-> FindTemporalProperty(transaction_props),
                 status_property |-> FindStatusProperty(transaction_props),
                 entity_connection |-> [relationship |-> "PLACED_BY",
                                        target_label |-> "Trader",
                                        direction |-> "outgoing"],
                 connected_to_relationship |-> "CONNECTED_TO"]
  IN IF transaction_props = <<>> THEN NoneRecord
     ELSE IF config.time_property # None THEN config ELSE NoneRecord

\* ----------------------------------------------------------------- queries
(***************************************************************************)
(* A query text is the record of the template it was built from (form) and *)
(* of the names interpolated into it; a field is None when the text holds  *)
(* no such name.  The only bound parameter is $lookback_hours.             *)
(***************************************************************************)
Or(x, default) == IF x = None THEN default ELSE x

Query(form, node, time, status, id, trader_id, security) ==
  [form |-> form, primary_node |-> node, time_prop |-> time,
   status_prop |-> status, id_prop |-> id, trader_id_prop |-> trader_id,
   security_prop |-> security]

\* _build_spoofing_query: trader grouping only for PLACED_BY
BuildSpoofingQuery(config, s) ==
  LET entity_conn == config.entity_connection
      primary_id_prop == FindIdProperty(config.primary_node_properties)
      trader_id_prop == Or(FindIdProperty(NodeProps(s, "Trader")), "trader_id")
  IN IF config.time_property = None THEN NoneRecord
     ELSE IF entity_conn # NoneRecord /\ entity_conn.relationship = "PLACED_BY"
       THEN Query("spoof_by_trader", config.primary_node, config.time_property,
                  config.status_property, primary_id_prop, trader_id_prop, None)
     ELSE Query("spoof_system_wide", config.primary_node, config.time_property,
                config.status_property, primary_id_prop, None, None)

\* simple_query of detect_spoofing_patterns
SpoofingSimpleQuery(config) ==
  Query("spoof_cancelled_only", config.primary_node, Fmt(config.time_property),
        Fmt(config.status_property),
        Or(FindIdProperty(config.primary_node_properties), "transaction_id"),
        None, None)

\* fallback_query of detect_spoofing_patterns
SpoofingIdFallbackQuery(config) ==
  Query("spoof_related_ids", config.primary_node, Fmt(config.time_property),
        Fmt(config.status_property),
        Or(FindIdProperty(config.primary_node_properties), "transaction_id"),
        None, None)

\* _build_layering_query
BuildLayeringQuery(config, s) ==
  LET entity_conn == config.entity_connection
      primary_id_prop == FindIdProperty(config.primary_node_properties)
      trader_id_prop == Or(FindIdProperty(NodeProps(s, "Trader")), "trader_id")
      security_prop == FindSecurityProperty(config.primary_node_properties)
  IN IF config.time_property = None THEN NoneRecord
     ELSE IF entity_conn # NoneRecord /\ entity_conn.relationship = "PLACED_BY"
       THEN Query("layer_by_trader", config.primary_node, config.time_property,
                  None, primary_id_prop, trader_id_prop, None)
     ELSE IF security_prop # None
       THEN Query("layer_system_involves", config.primary_node,
                  config.time_property, None, primary_id_prop, None, None)
     ELSE Query("layer_system_first_ten", config.primary_node,
                config.time_property, None, primary_id_prop, None, None)

\* simple_query of detect_layering_patterns
LayeringSimpleQuery(config) ==
  LET id_prop == Or(FindIdProperty(config.primary_node_properties), "transaction_id")
      security_prop == FindSecurityProperty(config.primary_node_properties)
  IN IF security_prop # None
       THEN Query("layer_by_security", config.primary_node,
                  Fmt(config.time_property), None, id_prop, None, security_prop)
     ELSE Query("layer_first_three", config.primary_node,
                Fmt(config.time_property), None, id_prop, None, None)

\* query of _detect_volume_anomalies
VolumeQuery(label, time_prop) ==
  Query("volume", label, time_prop, None, None, None, None)

\* the names interpolated into a query text, each with the label it is read on
InterpolatedLabels(q) == {q.primary_node}

InterpolatedProps(q) ==
  {[label |-> q.primary_node, name |-> p] :
     p \in {q.time_prop, q.status_prop, q.id_prop, q.security_prop} \ {None}} \cup
  {[label |-> "Trader", name |-> p] : p \in {q.trader_id_prop} \ {None}}

\* ------------------------------------------------------- query evaluation
(***************************************************************************)
(* What the database answers to each query form.  A property a node does   *)
(* not carry reads as null; a list comprehension keeps nulls, collect()    *)
(* drops them.                                                             *)
(***************************************************************************)
\* what a Transaction property holds
PropRole(p) ==
  CASE p \in {"timestamp", "Created_At", "created_at"} -> "time"
    [] p = "status" -> "status"
    [] p = "transaction_id" -> "id"
    [] p = "symbol" -> "symbol"
    [] OTHER -> "other"

Carries(d, p, role) == p \in Range(d.txProps) /\ PropRole(p) = role

Nodes(d, label) ==
  IF label = "Transaction" THEN [i \in 1..Len(d.txs) |-> i] ELSE <<>>

\* n.<time> >= datetime() - duration({hours: $lookback_hours})
InWindow(d, i, time_prop, lookback_hours) ==
  Carries(d, time_prop, "time") /\ d.txs[i].age <= lookback_hours

WindowNodes(d, q, lookback_hours) ==
  SelectSeq(Nodes(d, q.primary_node),
            LAMBDA i : InWindow(d, i, q.time_prop, lookback_hours))

StatusValue(d, i, status_prop) ==
  IF Carries(d, status_prop, "status") THEN d.txs[i].status ELSE None

\* v =~ '.*(?i)(cancel|abort|reject).*'; null matches nothing
CancelledLike(v) ==
  v # None /\ \E k \in {"cancel", "abort", "reject"} : KeywordIn(k, v)

\* tx.<id_prop>, or toString(id(tx)) when the text names no id property (the
\* internal id of node i is the string named -i)
IdValue(d, i, id_prop) ==
  IF id_prop = None THEN [t |-> "str", v |-> 0 - i]
  ELSE IF Carries(d, id_prop, "id") THEN [t |-> d.idShape, v |-> i]
  ELSE Null

IdValues(d, nodes, id_prop) == [k \in DOMAIN nodes |-> IdValue(d, nodes[k], id_prop)]

\* trader.<trader_id_prop>
TraderIdValue(trader, trader_id_prop) ==
  IF trader_id_prop = "trader_id" THEN trader ELSE None

\* the CASE on securities[0].symbol / .cusip
PrimarySecurity(d, nodes) ==
  IF nodes # <<>> /\ d.security # None THEN d.security ELSE "unknown"

TraderOrder == <<"T1", "T2">>

PlacedBy(d, nodes, trader) ==
  SelectSeq(nodes, LAMBDA i : d.linkRel = "PLACED_BY" /\ d.txs[i].trader = trader)

Cancelled(d, nodes, status_prop) ==
  SelectSeq(nodes, LAMBDA i : CancelledLike(StatusValue(d, i, status_prop)))

RECURSIVE Repeated(_, _)
\* every element of a list n times in a row
Repeated(nodes, n) ==
  IF nodes = <<>> THEN <<>>
  ELSE [k \in 1..n |-> Head(nodes)] \o Repeated(Tail(nodes), n)

\* OPTIONAL MATCH (t)-[:INVOLVES]->(security:Security): one row per Security
\* a transaction involves, one row with null when it involves none, so that
\* collect(t) lists a transaction once per row
Involving(d, nodes) ==
  Repeated(nodes, IF d.security = None THEN 1 ELSE d.secLinks)

Row(entity_id, instrument, total_items, cancelled_count, related_items) ==
  [entity_id |-> entity_id, instrument |-> instrument,
   total_items |-> total_items, cancelled_count |-> cancelled_count,
   related_items |-> related_items]

\* rows of one group of the spoofing queries
SpoofGroupRows(d, q, all, entity_id) ==
  LET cancelled == Cancelled(d, all, q.status_prop)
      items == Take(IdValues(d, all, q.id_prop), QueryItemLimit)
  IN IF Len(all) < 2 THEN <<>>
     ELSE IF q.status_prop # None
       THEN IF Len(cancelled) > 0 /\ Len(all) - Len(cancelled) > 0
              THEN <<Row(entity_id, PrimarySecurity(d, all), Len(all),
                         Len(cancelled), items)>>
            ELSE <<>>
     ELSE <<Row(entity_id, PrimarySecurity(d, all), Len(all), 0, items)>>

ExecSpoofByTrader(d, q, lookback_hours) ==
  LET win == WindowNodes(d, q, lookback_hours)
      rows(tr) == SpoofGroupRows(d, q, Involving(d, PlacedBy(d, win, tr)),
                                 TraderIdValue(tr, q.trader_id_prop))
  IN rows(TraderOrder[1]) \o rows(TraderOrder[2])

ExecSpoofSystemWide(d, q, lookback_hours) ==
  SpoofGroupRows(d, q, Involving(d, WindowNodes(d, q, lookback_hours)), "system_wide")

ExecSpoofCancelledOnly(d, q, lookback_hours) ==
  LET cancelled == Cancelled(d, WindowNodes(d, q, lookback_hours), q.status_prop)
  IN IF Len(cancelled) > 0
       THEN <<Row("system_wide", "unknown", Len(cancelled), Len(cancelled),
                  Take(IdValues(d, cancelled, q.id_prop), QueryItemLimit))>>
     ELSE <<>>

\* one row, its transaction_ids in related_items
ExecSpoofRelatedIds(d, q, lookback_hours) ==
  LET cancelled == Cancelled(d, WindowNodes(d, q, lookback_hours), q.status_prop)
      ids == SelectSeq(IdValues(d, cancelled, q.id_prop), LAMBDA x : x # Null)
  IN <<Row(None, None, 0, 0, Take(ids, QueryItemLimit))>>

\* ORDER BY n.<time> ASC: oldest first
OldestFirst(d, nodes) ==
  SelectSeq(nodes, LAMBDA i : d.txs[i].age = 2) \o
  SelectSeq(nodes, LAMBDA i : d.txs[i].age = 1)

\* ORDER BY size DESC of at most two rows
BySizeDesc(rows) ==
  IF Len(rows) = 2 /\ rows[1].total_items < rows[2].total_items
    THEN <<rows[2], rows[1]>>
  ELSE rows

LayerGroupRows(d, q, transactions, entity_id) ==
  LET all_transactions == Involving(d, transactions)
      connected_chain_txs == SelectSeq(all_transactions, LAMBDA i : d.txs[i].conn)
      isolated_txs == SelectSeq(all_transactions, LAMBDA i : ~d.txs[i].conn)
      layering_transactions ==
        IF Len(connected_chain_txs) >= 3 THEN connected_chain_txs
        ELSE Take(isolated_txs, 3)
  IN IF Len(transactions) >= 3
        /\ (Len(connected_chain_txs) >= 3 \/ Len(isolated_txs) >= 3)
       THEN <<Row(entity_id, PrimarySecurity(d, transactions),
                  Len(layering_transactions), 0,
                  Take(IdValues(d, layering_transactions, q.id_prop), QueryItemLimit))>>
     ELSE <<>>

ExecLayerByTrader(d, q, lookback_hours) ==
  LET win == WindowNodes(d, q, lookback_hours)
      rows(tr) == LayerGroupRows(d, q, PlacedBy(d, win, tr),
                                 TraderIdValue(tr, q.trader_id_prop))
  IN BySizeDesc(rows(TraderOrder[1]) \o rows(TraderOrder[2]))

ExecLayerSystemInvolves(d, q, lookback_hours) ==
  LET all == Involving(d, WindowNodes(d, q, lookback_hours))
      connected_txs == SelectSeq(all, LAMBDA i : d.txs[i].conn)
  IN IF Len(all) >= 3 /\ (Len(connected_txs) > 0 \/ Len(all) - Len(connected_txs) >= 3)
       THEN <<Row("system_wide", PrimarySecurity(d, all), Len(all), 0,
                  Take(IdValues(d, all, q.id_prop), QueryItemLimit))>>
     ELSE <<>>

ExecLayerSystemFirstTen(d, q, lookback_hours) ==
  LET transactions == Take(OldestFirst(d, WindowNodes(d, q, lookback_hours)), 10)
  IN IF Len(transactions) >= 3
       THEN <<Row("system_wide", "unknown", Len(transactions), 0,
                  IdValues(d, transactions, q.id_prop))>>
     ELSE <<>>

\* every node carries the same symbol, so there is one group; a null group
\* key gives instrument None
ExecLayerBySecurity(d, q, lookback_hours) ==
  LET items == WindowNodes(d, q, lookback_hours)
      instrument == IF Carries(d, q.security_prop, "symbol") /\ d.security # None
                    THEN d.security ELSE None
  IN IF Len(items) >= 3
       THEN <<Row("system_wide", instrument, Len(items), 0,
                  Take(IdValues(d, items, q.id_prop), QueryItemLimit))>>
     ELSE <<>>

ExecLayerFirstThree(d, q, lookback_hours) ==
  LET first_transactions == Take(OldestFirst(d, WindowNodes(d, q, lookback_hours)), 3)
  IN IF Len(first_transactions) >= 3
       THEN <<Row("system_wide", "unknown", Len(first_transactions), 0,
                  IdValues(d, first_transactions, q.id_prop))>>
     ELSE <<>>

\* recent_count > total_count * 0.3 AND recent_count > 5; the row carries
\* recent_count in total_items and node_type in instrument
ExecVolume(d, q, lookback_hours) ==
  LET recent_count ==
        IF q.primary_node = "Order" /\ q.time_prop = "created_at"
          THEN d.orders.recent[lookback_hours]
        ELSE Len(WindowNodes(d, q, lookback_hours))
      total_count ==
        IF q.primary_node = "Order" THEN d.orders.total
        ELSE Len(Nodes(d, q.primary_node))
  IN IF recent_count * 10 > total_count * 3 /\ recent_count > 5
       THEN <<Row(None, q.primary_node, recent_count, 0, <<>>)>>
     ELSE <<>>

\* db.execute_query(query, {"lookback_hours": lookback_hours})
ExecuteQuery(d, q, lookback_hours) ==
  CASE q.form = "spoof_by_trader" -> ExecSpoofByTrader(d, q, lookback_hours)
    [] q.form = "spoof_system_wide" -> ExecSpoofSystemWide(d, q, lookback_hours)
    [] q.form = "spoof_cancelled_only" -> ExecSpoofCancelledOnly(d, q, lookback_hours)
    [] q.form = "spoof_related_ids" -> ExecSpoofRelatedIds(d, q, lookback_hours)
    [] q.form = "layer_by_trader" -> ExecLayerByTrader(d, q, lookback_hours)
    [] q.form = "layer_system_involves" -> ExecLayerSystemInvolves(d, q, lookback_hours)
    [] q.form = "layer_system_first_ten" -> ExecLayerSystemFirstTen(d, q, lookback_hours)
    [] q.form = "layer_by_security" -> ExecLayerBySecurity(d, q, lookback_hours)
    [] q.form = "layer_first_three" -> ExecLayerFirstThree(d, q, lookback_hours)
    [] q.form = "volume" -> ExecVolume(d, q, lookback_hours)

\* ----------------------------------------------------------------- scoring
\* a score is the double the code holds: its exact value n/d, and whether
\* the double lies below the one of the literals 0.7, 0.8, 0.9, 1.0 that n/d
\* equals (binary64 sums round, so 0.7 + 0.1 is 0.7999999999999999)
Score(n, d) == [n |-> n, d |-> d, under |-> FALSE]

\* score >= h/100, as the comparison of doubles decides it
ScoreAtLeast(score, h) == score.n * 100 > h * score.d \/ (score.n * 100 = h * score.d /\ ~score.under)

\* score <= h/100
ScoreAtMost(score, h) == score.n * 100 <= h * score.d

\* the score as computed, with no upper limit
NoClamp(score) == score

\* min(confidence, 1.0)
ClampToOne(score) == IF score.n > score.d THEN Score(score.d, score.d) ELSE score

Max(a, b) == IF a >= b THEN a ELSE b

\* the sums of doubles that come out below the literal their exact value
\* equals, as <<left operand in hundredths, left operand already below its
\* literal, right operand in hundredths>>:
\*   0.6 + 0.3 = 0.8999999999999999    0.7 + 0.1 = 0.7999999999999999
\*   0.7 + 0.2 = 0.8999999999999999    0.7999999999999999 + 0.1 = 0.8999999999999999
\*   0.8999999999999999 + 0.1 = 0.9999999999999999
\* every other sum the scoring functions form on a band boundary is the
\* literal itself
FallsShort == {<<60, FALSE, 30>>, <<70, FALSE, 10>>, <<70, FALSE, 20>>, <<80, TRUE, 10>>, <<90, TRUE, 10>>}

\* confidence += a/100 as if every sum of doubles were exact
ExactAdd(score, a) == IF a = 0 THEN score ELSE Score(score.n + a * (score.d \div 100), score.d)

\* confidence += a/100, skipped by the code when nothing is to be added
FloatAdd(score, a) == IF a = 0 THEN score ELSE [n |-> score.n + a * (score.d \div 100), d |-> score.d, under |-> \E e \in FallsShort : score.n * 100 = e[1] * score.d /\ score.under = e[2] /\ a = e[3]]

\* _calculate_spoofing_confidence with the volume bonus given from 5 items
SpoofingConfidenceEarlyBonus(result) ==
  LET den == Max(result.total_items, 1)
      bonus == IF result.total_items >= 10 THEN 20
               ELSE IF result.total_items >= 5 THEN 10 ELSE 0
  IN ClampToOne(FloatAdd(Score(50 * den + 40 * result.cancelled_count, 100 * den), bonus))

\* _calculate_spoofing_confidence: 0.5 + cancelled/max(total, 1) * 0.4, then
\* the volume bonus
CalculateSpoofingConfidence(result) ==
  LET den == Max(result.total_items, 1)
      bonus == IF result.total_items >= 20 THEN 20
               ELSE IF result.total_items >= 10 THEN 10 ELSE 0
  IN ClampToOne(FloatAdd(Score(50 * den + 40 * result.cancelled_count, 100 * den), bonus))

\* _calculate_layering_confidence without the bonus of an entity-specific row
LayeringConfidenceNoEntityBonus(result) ==
  LET volume == IF result.total_items >= 10 THEN 30
                ELSE IF result.total_items >= 5 THEN 20
                ELSE IF result.total_items >= 3 THEN 10 ELSE 0
      security == IF result.instrument # "unknown" THEN 10 ELSE 0
      related == IF Len(result.related_items) >= 5 THEN 10
                 ELSE IF Len(result.related_items) >= 3 THEN 5 ELSE 0
  IN ClampToOne(FloatAdd(FloatAdd(FloatAdd(Score(60, 100), volume), security), related))

\* _calculate_layering_confidence, in hundredths, added in the code's order
CalculateLayeringConfidence(result) ==
  LET volume == IF result.total_items >= 10 THEN 30
                ELSE IF result.total_items >= 5 THEN 20
                ELSE IF result.total_items >= 3 THEN 10 ELSE 0
      security == IF result.instrument # "unknown" THEN 10 ELSE 0
      entity == IF result.entity_id # "system_wide" THEN 10 ELSE 0
      related == IF Len(result.related_items) >= 5 THEN 10
                 ELSE IF Len(result.related_items) >= 3 THEN 5 ELSE 0
  IN ClampToOne(FloatAdd(FloatAdd(FloatAdd(FloatAdd(Score(60, 100), volume), security), entity), related))

\* _calculate_confidence_score
CalculateConfidenceScore(result, pattern_type) ==
  IF pattern_type = "spoofing" THEN CalculateSpoofingConfidence(result)
  ELSE IF pattern_type = "layering" THEN CalculateLayeringConfidence(result)
  ELSE CalculateSpoofingConfidence(result)

\* _determine_severity
DetermineSeverity(confidence_score) ==
  IF ScoreAtLeast(confidence_score, 90) THEN "CRITICAL"
  ELSE IF ScoreAtLeast(confidence_score, 80) THEN "HIGH"
  ELSE IF ScoreAtLeast(confidence_score, 70) THEN "MEDIUM"
  ELSE "LOW"

\* ------------------------------------------------------------ activity ids
IsStr(x) == x.t = "str"

RECURSIVE Insert(_, _)
Insert(x, sorted) ==
  IF sorted = <<>> THEN <<x>>
  ELSE IF x.v <= Head(sorted).v THEN <<x>> \o sorted
  ELSE <<Head(sorted)>> \o Insert(x, Tail(sorted))

\* sorted(items), for items of one type that compares
RECURSIVE Sorted(_)
Sorted(items) ==
  IF items = <<>> THEN <<>> ELSE Insert(Head(items), Sorted(Tail(items)))

SortItems(items) == Sorted(items)

\* str(uuid.uuid4()): u is the random draw
Uuid4(u) == [kind |-> "uuid4", key |-> <<"uuid4", "", "", [t |-> "str", v |-> u]>>]

\* md5 of the pattern key, taken as injective on the key
Md5(pattern_key) == [kind |-> "md5", key |-> pattern_key]

\* _generate_deterministic_id: sorted() or ':'.join() raises TypeError on an
\* item that is not a string, and the except branch returns a uuid4
GenerateDeterministicId(pattern_type, trader_id, instrument, related_items, u) ==
  LET limited_items == Take(related_items, IdLimit)
  IN IF \A i \in DOMAIN limited_items : IsStr(limited_items[i])
       THEN Md5(<<pattern_type, Fmt(trader_id), Fmt(instrument)>>
                \o SortItems(limited_items))
     ELSE Uuid4(u)

\* ------------------------------------------------------ account enrichment
AccountOfTrader(trader) == IF trader = "T1" THEN "ACC1" ELSE "ACC2"

\* _get_account_for_transaction: MATCH ... WHERE t.transaction_id = $transaction_id
GetAccountForTransaction(d, transaction_id) ==
  LET hits == {i \in DOMAIN d.txs :
                 /\ d.accountLookup = "up"
                 /\ Carries(d, "transaction_id", "id")
                 /\ d.idShape = transaction_id.t
                 /\ d.idShape # "list"
                 /\ i = transaction_id.v}
  IN IF hits = {} THEN None
     ELSE AccountOfTrader(d.txs[CHOOSE i \in hits : TRUE].trader)

\* the sample is the whole list
SampleAll(related_transactions) == related_transactions

\* sample_transactions = related_transactions[:5]
SampleTransactions(related_transactions) == Take(related_transactions, SampleLimit)

\* _get_account_for_pattern: the most frequent account among the first 5
\* items, the first seen on a tie
GetAccountForPattern(d, related_transactions) ==
  LET sample_transactions == SampleTransactions(related_transactions)
      found == [k \in DOMAIN sample_transactions |->
                  GetAccountForTransaction(d, sample_transactions[k])]
      accounts == Range(found) \ {None}
      count(a) == Cardinality({k \in DOMAIN found : found[k] = a})
      firstAt(a) == CHOOSE k \in DOMAIN found :
                      found[k] = a /\ \A j \in DOMAIN found : found[j] = a => k <= j
  IN IF accounts = {} THEN None
     ELSE CHOOSE a \in accounts :
            \A b \in accounts :
               count(a) > count(b) \/ (count(a) = count(b) /\ firstAt(a) <= firstAt(b))

\* ------------------------------------------------------------ normalising
\* the elements of a list value: those it lists in `items`, or the one string
\* named like the list
ListItems(x) ==
  IF "items" \in DOMAIN x THEN x.items ELSE <<[t |-> "str", v |-> x.v]>>

\* flatten nested lists one level: flattened_items.extend(item) for a list,
\* append(item) otherwise
RECURSIVE Flatten(_)
Flatten(related_items) ==
  IF related_items = <<>> THEN <<>>
  ELSE (IF Head(related_items).t = "list"
          THEN ListItems(Head(related_items))
        ELSE <<Head(related_items)>>) \o Flatten(Tail(related_items))

Activity(activity_id, pattern_type, trader_id, account_id, instrument, confidence_score, related_trades, severity) ==
  [activity_id |-> activity_id, pattern_type |-> pattern_type,
   trader_id |-> trader_id, account_id |-> account_id,
   instrument |-> instrument, confidence_score |-> confidence_score,
   related_trades |-> related_trades, severity |-> severity]

\* what validation of a `str` field accepts: a str, or bytes it decodes
StrField(x) == x.t \in {"str", "bytes"}

\* SuspiciousActivity(...): trader_id, instrument and each related trade are
\* validated as `str` fields, and a failure raises ValidationError
ValidActivity(a) ==
  /\ a.trader_id # None
  /\ a.instrument # None
  /\ \A i \in DOMAIN a.related_trades : StrField(a.related_trades[i])

LogEntry(tier, relationship, q, results) ==
  [tier |-> tier, relationship |-> relationship, query |-> q, rows |-> Len(results)]

\* ---------------------------------------------------------------- detection
(***************************************************************************)
(* A detection returns [activities, log]: the findings, and the queries it *)
(* executed in order, each with its tier and the number of rows it gave.   *)
(* A value the code computes once and then reads several times is passed   *)
(* on as an argument: the operator named after a function is its entry,    *)
(* and the operators that follow it are the rest of its body.              *)
(***************************************************************************)
Outcome(acts, log) == [activities |-> acts, log |-> log]

Join(a, b) == Outcome(a.activities \o b.activities, a.log \o b.log)

Tiers(results, config, log) == [results |-> results, config |-> config, log |-> log]

\* the list read from its end
AlternativesReversed == <<"BELONGS_TO", "HAS", "OWNS", "EXECUTED_BY", "PLACED_BY">>

\* alternatives = ['PLACED_BY', 'EXECUTED_BY', 'OWNS', 'HAS', 'BELONGS_TO']
Alternatives == <<"PLACED_BY", "EXECUTED_BY", "OWNS", "HAS", "BELONGS_TO">>

BuildQuery(family, config, s) ==
  IF family = "spoofing" THEN BuildSpoofingQuery(config, s)
  ELSE BuildLayeringQuery(config, s)

SimpleQuery(family, config) ==
  IF family = "spoofing" THEN SpoofingSimpleQuery(config)
  ELSE LayeringSimpleQuery(config)

\* alt_config = detection_config.copy(); alt_config['entity_connection']
\* ['relationship'] = alt_rel.  The copy is shallow: both configs hold the
\* same entity_connection dict, so detection_config shows alt_rel as well
WithRelationship(config, alt_rel) ==
  [config EXCEPT !.entity_connection.relationship = alt_rel]

\* the loop over the alternative relationships, from position k on; config
\* is the state of the shared dict
RECURSIVE TryAlternatives(_, _, _, _, _, _, _)
\* alt_results of alternative k
AlternativeTried(family, d, s, alt_config, lookback_hours, k, log, alt_results) ==
  IF alt_results # <<>> THEN Tiers(alt_results, alt_config, log)
  ELSE TryAlternatives(family, d, s, alt_config, lookback_hours, k + 1, log)

\* alt_query of alternative k
AlternativeBuilt(family, d, s, alt_config, lookback_hours, k, log, alt_query, alt_results) ==
  IF alt_query = NoneRecord
    THEN TryAlternatives(family, d, s, alt_config, lookback_hours, k + 1, log)
  ELSE AlternativeTried(family, d, s, alt_config, lookback_hours, k,
                        Append(log, LogEntry("alternate", Alternatives[k],
                                             alt_query, alt_results)),
                        alt_results)

TryAlternative(family, d, s, alt_config, lookback_hours, k, log, alt_query) ==
  AlternativeBuilt(family, d, s, alt_config, lookback_hours, k, log, alt_query,
                   ExecuteQuery(d, alt_query, lookback_hours))

TryAlternatives(family, d, s, config, lookback_hours, k, log) ==
  IF k > Len(Alternatives) THEN Tiers(<<>>, config, log)
  ELSE IF Alternatives[k] \in s.relationship_types
          /\ Alternatives[k] # config.entity_connection.relationship
    THEN TryAlternative(family, d, s, WithRelationship(config, Alternatives[k]),
                        lookback_hours, k, log,
                        BuildQuery(family, WithRelationship(config, Alternatives[k]), s))
  ELSE TryAlternatives(family, d, s, config, lookback_hours, k + 1, log)

\* simple_results of the system-wide query
SystemWideTried(alt, simple_query, simple_results) ==
  Tiers(simple_results, alt.config,
        Append(alt.log, LogEntry("system_wide", None, simple_query, simple_results)))

\* the system-wide query, run when the alternatives gave no rows
TrySystemWide(family, d, alt, lookback_hours) ==
  IF alt.results # <<>> THEN alt
  ELSE SystemWideTried(alt, SimpleQuery(family, alt.config),
                       ExecuteQuery(d, SimpleQuery(family, alt.config),
                                    lookback_hours))

\* results of the primary query
PrimaryTried(family, d, s, config, lookback_hours, log, results) ==
  IF results # <<>> \/ config.entity_connection = NoneRecord
    THEN Tiers(results, config, log)
  ELSE TrySystemWide(family, d,
                     TryAlternatives(family, d, s, config, lookback_hours, 1, log),
                     lookback_hours)

PrimaryLogged(family, d, s, config, query, lookback_hours, results) ==
  PrimaryTried(family, d, s, config, lookback_hours,
               <<LogEntry("primary", config.entity_connection.relationship,
                          query, results)>>,
               results)

\* the tiers of queries of detect_spoofing_patterns / detect_layering_patterns
\* for a query that was built
RunTiers(family, d, s, config, query, lookback_hours) ==
  PrimaryLogged(family, d, s, config, query, lookback_hours,
                ExecuteQuery(d, query, lookback_hours))

\* the floor put strictly above the base score of a spoofing row
AcceptRowAboveBase(confidence_score) == ~ScoreAtMost(confidence_score, 50)

\* confidence_score >= 0.4
AcceptRow(confidence_score) == ScoreAtLeast(confidence_score, MatchThreshold)

\* what one row of the loop comes to: [out, activity, log]; out is "skip"
\* (score under the floor), "ok", or "raise" (SuspiciousActivity rejects the
\* values)
Skipped == [out |-> "skip", activity |-> NoneRecord, log |-> <<>>]

Built(activity, log) ==
  [out |-> IF ValidActivity(activity) THEN "ok" ELSE "raise",
   activity |-> activity, log |-> log]

SpoofingActivity(d, result, confidence_score, flattened_items, u) ==
  Activity(GenerateDeterministicId("SPOOFING", result.entity_id,
                                   Or(result.instrument, "unknown"),
                                   flattened_items, u),
           "SPOOFING", result.entity_id, GetAccountForPattern(d, flattened_items),
           Or(result.instrument, "unknown"), confidence_score, flattened_items,
           DetermineSeverity(confidence_score))

\* fallback_results of the related-ids query
SpoofingFallbackTried(d, result, confidence_score, u, fallback_query, fallback_results) ==
  Built(SpoofingActivity(d, result, confidence_score,
                         IF fallback_results # <<>>
                           THEN fallback_results[1].related_items
                         ELSE <<>>, u),
        <<LogEntry("related_ids", None, fallback_query, fallback_results)>>)

SpoofingFallback(d, lookback_hours, result, confidence_score, u, fallback_query) ==
  SpoofingFallbackTried(d, result, confidence_score, u, fallback_query,
                        ExecuteQuery(d, fallback_query, lookback_hours))

SpoofingFlattened(d, config, lookback_hours, result, confidence_score, u, flattened_items) ==
  IF flattened_items = <<>>
    THEN SpoofingFallback(d, lookback_hours, result, confidence_score, u,
                          SpoofingIdFallbackQuery(config))
  ELSE Built(SpoofingActivity(d, result, confidence_score, flattened_items, u), <<>>)

SpoofingScored(d, config, lookback_hours, result, u, confidence_score) ==
  IF ~AcceptRow(confidence_score) THEN Skipped
  ELSE SpoofingFlattened(d, config, lookback_hours, result, confidence_score, u,
                         Flatten(result.related_items))

\* one row of the loop of detect_spoofing_patterns
SpoofingRow(d, config, lookback_hours, result, u) ==
  SpoofingScored(d, config, lookback_hours, result, u,
                 CalculateConfidenceScore(result, "spoofing"))

LayeringActivity(d, result, confidence_score, flattened_items, u) ==
  Activity(GenerateDeterministicId("LAYERING", result.entity_id, result.instrument,
                                   flattened_items, u),
           "LAYERING", result.entity_id, GetAccountForPattern(d, flattened_items),
           result.instrument, confidence_score, flattened_items,
           DetermineSeverity(confidence_score))

LayeringScored(d, result, u, confidence_score) ==
  IF ~AcceptRow(confidence_score) THEN Skipped
  ELSE Built(LayeringActivity(d, result, confidence_score,
                              Flatten(result.related_items), u), <<>>)

\* one row of the loop of detect_layering_patterns
LayeringRow(d, config, lookback_hours, result, u) ==
  LayeringScored(d, result, u, CalculateConfidenceScore(result, "layering"))

\* `for result in results:` inside the try block: the first exception ends
\* the loop, and the activities appended so far are returned
RECURSIVE RowLoop(_, _, _, _, _, _, _, _, _)
\* r is what row k came to
RowDone(family, d, config, lookback_hours, results, k, u, acts, log, r) ==
  IF r.out = "raise" THEN Outcome(acts, log \o r.log)
  ELSE RowLoop(family, d, config, lookback_hours, results, k + 1, u,
               IF r.out = "ok" THEN Append(acts, r.activity) ELSE acts,
               log \o r.log)

RowLoop(family, d, config, lookback_hours, results, k, u, acts, log) ==
  IF k > Len(results) THEN Outcome(acts, log)
  ELSE RowDone(family, d, config, lookback_hours, results, k, u, acts, log,
               IF family = "spoofing"
                 THEN SpoofingRow(d, config, lookback_hours, results[k], u + k)
               ELSE LayeringRow(d, config, lookback_hours, results[k], u + k))

IdentifyElements(family, s) ==
  IF family = "spoofing" THEN IdentifySpoofingElements(s)
  ELSE IdentifyLayeringElements(s)

\* tiers is what the tiers of queries came to
DetectRows(family, d, lookback_hours, u, tiers) ==
  RowLoop(family, d, tiers.config, lookback_hours, tiers.results, 1, u, <<>>,
          tiers.log)

\* query is the primary query, or None
DetectQueried(family, d, s, detection_config, lookback_hours, u, query) ==
  IF query = NoneRecord THEN Outcome(<<>>, <<>>)
  ELSE DetectRows(family, d, lookback_hours, u,
                  RunTiers(family, d, s, detection_config, query, lookback_hours))

\* detection_config is the resolved config, or None
DetectResolved(family, d, s, lookback_hours, u, detection_config) ==
  IF detection_config = NoneRecord THEN Outcome(<<>>, <<>>)
  ELSE DetectQueried(family, d, s, detection_config, lookback_hours, u,
                     BuildQuery(family, detection_config, s))

\* detect_spoofing_patterns / detect_layering_patterns
DetectFamily(family, d, s, lookback_hours, u) ==
  DetectResolved(family, d, s, lookback_hours, u, IdentifyElements(family, s))

DetectSpoofingPatterns(d, s, lookback_hours, u) ==
  DetectFamily("spoofing", d, s, lookback_hours, u)

DetectLayeringPatterns(d, s, lookback_hours, u) ==
  DetectFamily("layering", d, s, lookback_hours, u)

\* severity="MEDIUM" of a volume finding
VolumeSeverity == "MEDIUM"

\* confidence_score=0.6 of a volume finding
VolumeConfidence == Score(60, 100)

\* result['recent_count'] > 50
VolumeFloor == 50

VolumeActivity(d, result, u) ==
  Activity(GenerateDeterministicId("VOLUME_ANOMALY", "system_wide",
                                   result.instrument, <<>>, u),
           "LAYERING", "system_wide", GetAccountForPattern(d, <<>>),
           result.instrument, VolumeConfidence, <<>>, VolumeSeverity)

\* the same without the skip of the labels that name transactions
VolumeTriedNoSkip(d, label, u, query, results) ==
  Outcome(IF results # <<>> /\ results[1].total_items > VolumeFloor
            THEN <<VolumeActivity(d, results[1], u)>>
          ELSE <<>>,
          <<LogEntry("volume", None, query, results)>>)

\* results of the volume query of a label; a label that names transactions
\* is skipped
VolumeTried(d, label, u, query, results) ==
  Outcome(IF results # <<>> /\ results[1].total_items > VolumeFloor
             /\ ~(label = "Transaction" \/ KeywordIn("transaction", label))
            THEN <<VolumeActivity(d, results[1], u)>>
          ELSE <<>>,
          <<LogEntry("volume", None, query, results)>>)

VolumeTimed(d, label, lookback_hours, u, time_prop) ==
  IF time_prop = None THEN Outcome(<<>>, <<>>)
  ELSE VolumeTried(d, label, u, VolumeQuery(label, time_prop),
                   ExecuteQuery(d, VolumeQuery(label, time_prop), lookback_hours))

\* _detect_volume_anomalies, one label of schema['node_labels']
VolumeForLabel(d, s, label, lookback_hours, u) ==
  VolumeTimed(d, label, lookback_hours, u, FindTemporalProperty(NodeProps(s, label)))

RECURSIVE VolumeLoop(_, _, _, _, _)
VolumeLoop(d, s, labels, lookback_hours, u) ==
  IF labels = <<>> THEN Outcome(<<>>, <<>>)
  ELSE Join(VolumeForLabel(d, s, Head(labels), lookback_hours, u),
            VolumeLoop(d, s, Tail(labels), lookback_hours, u))

\* detect_unusual_patterns: volume anomalies, then time anomalies (none)
DetectUnusualPatterns(d, s, lookback_hours, u) ==
  VolumeLoop(d, s, s.node_labels, lookback_hours, u)

\* the families detect_all_patterns calls, in call order
Families == <<"spoofing", "layering", "volume">>

\* an exception leaves the family whose queries raise, were its except missing
FamilyExceptMissing(family, fails) == family \in fails

\* whether an exception leaves a family: each wraps its queries in
\* try/except Exception and returns the list it has
FamilyRaises(family, fails) == FALSE

\* what a family returns; fails holds the families whose execute_query raises,
\* and a family whose first query raises has built no finding
FamilyOutcome(family, fails, d, s, lookback_hours, u) ==
  IF family \in fails THEN Outcome(<<>>, <<>>)
  ELSE IF family = "spoofing" THEN DetectSpoofingPatterns(d, s, lookback_hours, u)
  ELSE IF family = "layering" THEN DetectLayeringPatterns(d, s, lookback_hours, u)
  ELSE DetectUnusualPatterns(d, s, lookback_hours, u)

\* the try block of detect_all_patterns: an exception ends it and what was
\* gathered is returned; the offsets keep the random draws of one run apart
RECURSIVE FamiliesFrom(_, _, _, _, _, _)
FamiliesFrom(families, fails, d, s, lookback_hours, u) ==
  IF families = <<>> THEN Outcome(<<>>, <<>>)
  ELSE IF FamilyRaises(Head(families), fails) THEN Outcome(<<>>, <<>>)
  ELSE Join(FamilyOutcome(Head(families), fails, d, s, lookback_hours, u),
            FamiliesFrom(Tail(families), fails, d, s, lookback_hours, u + 10))

\* detect_all_patterns
DetectAllPatterns(d, s, te, lookback_hours, u, fails) ==
  IF DOMAIN te = {} THEN Outcome(<<>>, <<>>)
  ELSE FamiliesFrom(Families, fails, d, s, lookback_hours, u)

\* ------------------------------------------------------------- the detector
\* the threads that call discover_full_schema
Callers == {1, 2}

IdleCalls == [c \in Callers |-> [pc |-> "idle"]]

\* self._schema_cache = None
NoRef == 0

\* monitoring_task = None
NoTask == 0

\* MonitoringConfig(): enabled and check_interval_minutes as the class defaults
DefaultMonitoringConfig == [enabled |-> TRUE, check_interval_minutes |-> 5]

\* main.py is imported without an OpenAI key and lifespan has not run
Unstarted ==
  /\ monitoring_config = DefaultMonitoringConfig
  /\ monitoring_task = NoTask
  /\ tasks = <<>>
  /\ surveillance_agent = None
  /\ phase = "imported"

\* schema_discovery after the detector's _initialize_schema: the snapshot is
\* the first dict allocated and the cache refers to it
Discovered(d) ==
  /\ heap = <<DiscoverFullSchema(d)>>
  /\ schema_cache = 1
  /\ failing = {}
  /\ calls = IdleCalls

\* what uuid.uuid4() may draw in a run
UuidDraws == {0, 1000}

NoCall == [op |-> "none", lookback_hours |-> 0]

\* nothing was probed
NoProbe == [op |-> "none"]

\* the module-level detector: AdaptivePatternDetector() runs _initialize_schema
Init ==
  /\ db \in Databases
  /\ schema = InitializeSchema(DiscoverFullSchema(db)).schema
  /\ trading_elements = InitializeSchema(DiscoverFullSchema(db)).trading_elements
  /\ Discovered(db)
  /\ activities = <<>>
  /\ queryLog = <<>>
  /\ lastCall = NoCall
  /\ Unstarted
  /\ probe = NoProbe

\* the call returns r
Return(op, lookback_hours, r) ==
  /\ activities' = r.activities
  /\ queryLog' = r.log
  /\ lastCall' = [op |-> op, lookback_hours |-> lookback_hours]
  /\ UNCHANGED <<db, schema, trading_elements, probe, discovery, monitoring>>

CallSpoofing ==
  \E lookback_hours \in Lookbacks, u \in UuidDraws :
    Return("spoofing", lookback_hours,
           DetectSpoofingPatterns(db, schema, lookback_hours, u))

CallLayering ==
  \E lookback_hours \in Lookbacks, u \in UuidDraws :
    Return("layering", lookback_hours,
           DetectLayeringPatterns(db, schema, lookback_hours, u))

CallAll ==
  \E lookback_hours \in Lookbacks, u \in UuidDraws :
    Return("all", lookback_hours,
           DetectAllPatterns(db, schema, trading_elements, lookback_hours, u, failing))

Next == CallSpoofing \/ CallLayering \/ CallAll

Spec == Init /\ [][Next]_vars

\* ------------------------------------------------------- failing families
\* the detector on databases with orders, while the queries of some families
\* raise
FamilyDbs ==
  {Database(pop, [Baseline EXCEPT !.orders = o]) : pop \in TxPopulations, o \in OrderChoices}

FamilyFails == SUBSET {"spoofing", "layering", "volume"}

InitFamilies ==
  /\ db \in FamilyDbs
  /\ schema = InitializeSchema(DiscoverFullSchema(db)).schema
  /\ trading_elements = InitializeSchema(DiscoverFullSchema(db)).trading_elements
  /\ activities = <<>>
  /\ queryLog = <<>>
  /\ lastCall = NoCall
  /\ Unstarted
  /\ probe = NoProbe
  /\ heap = <<DiscoverFullSchema(db)>>
  /\ schema_cache = 1
  /\ failing \in FamilyFails
  /\ calls = IdleCalls

NextFamilies == CallAll

SpecFamilies == InitFamilies /\ [][NextFamilies]_vars

\* ------------------------------------------------- the functions on their own
(***************************************************************************)
(* The id and the scoring functions applied to arguments drawn from        *)
(* bounded sets; probe holds the arguments and the results.                *)
(***************************************************************************)
\* the database the row functions are probed on
ProbeDb == Database([i \in 1..MaxTx |-> TxKinds[1]], Baseline)

InitProbe ==
  /\ db = ProbeDb
  /\ schema = InitializeSchema(DiscoverFullSchema(db)).schema
  /\ trading_elements = InitializeSchema(DiscoverFullSchema(db)).trading_elements
  /\ Discovered(db)
  /\ activities = <<>>
  /\ queryLog = <<>>
  /\ lastCall = NoCall
  /\ Unstarted
  /\ probe = NoProbe

Probed(p) ==
  /\ probe' = p
  /\ UNCHANGED <<db, schema, trading_elements, activities, queryLog, lastCall, discovery,
                 monitoring>>

\* n related items, all strings, in ascending order
ItemList(n) == [i \in 1..n |-> [t |-> "str", v |-> i]]

\* the same items with positions i and j exchanged
Exchanged(items, i, j) ==
  [k \in DOMAIN items |-> IF k = i THEN items[j] ELSE IF k = j THEN items[i] ELSE items[k]]

PatternTypes == {"SPOOFING", "LAYERING", "VOLUME_ANOMALY"}

\* _generate_deterministic_id on a list and on a reordering of it
GenerateIds ==
  \E pattern_type \in PatternTypes, n \in 0..MaxItems, i \in 1..MaxItems,
     j \in 1..MaxItems :
    /\ i < j
    /\ j <= n
    /\ Probed([op |-> "ids", related_items |-> ItemList(n),
               reordered |-> Exchanged(ItemList(n), i, j),
               first |-> GenerateDeterministicId(pattern_type, "T1", "AAPL",
                                                 ItemList(n), 0),
               second |-> GenerateDeterministicId(pattern_type, "T1", "AAPL",
                                                  Exchanged(ItemList(n), i, j), 0)])

NextId == GenerateIds

SpecId == InitProbe /\ [][NextId]_vars

\* the longest property catalog the finders are probed on
MaxProps == 3

\* the property names of the catalogs
PropNamePool ==
  {"transaction_id", "status", "price", "timestamp", "created_at", "Created_At",
   "updated", "when"}

\* the catalogs: dict keys, each name once, in insertion order
PropLists ==
  UNION {{f \in [1..n -> PropNamePool] : \A i, j \in 1..n : f[i] = f[j] => i = j} :
           n \in 0..MaxProps}

InitTemporal ==
  /\ db = ProbeDb
  /\ schema = InitializeSchema(DiscoverFullSchema(db)).schema
  /\ trading_elements = InitializeSchema(DiscoverFullSchema(db)).trading_elements
  /\ Discovered(db)
  /\ activities = <<>>
  /\ queryLog = <<>>
  /\ lastCall = NoCall
  /\ Unstarted
  /\ \E properties \in PropLists : probe = [op |-> "args", properties |-> properties]

\* self._find_temporal_property(properties)
FindTemporal ==
  /\ probe.op = "args"
  /\ Probed([op |-> "temporal", properties |-> probe.properties,
             returned |-> FindTemporalProperty(probe.properties)])

NextTemporal == FindTemporal

SpecTemporal == InitTemporal /\ [][NextTemporal]_vars

\* the rows the scoring is probed on
RowEntities == {"T1", "system_wide"}
RowInstruments == {"AAPL", "unknown"}
RowItemCounts == {0, 3, 5, 6}
RowShapes == {"flat", "nested"}

\* n related items, each a list of two strings
NestedList(n) ==
  [i \in 1..n |-> [t |-> "list", v |-> i,
                   items |-> <<[t |-> "str", v |-> 2 * i - 1],
                               [t |-> "str", v |-> 2 * i]>>]]

\* the related_items field of a row
RowItems(shape, n) == IF shape = "nested" THEN NestedList(n) ELSE ItemList(n)
RowTotals == (0..MaxTotal) \cup {VolumeFloor + 1}

\* a row of any content is at hand
InitScore ==
  /\ db = ProbeDb
  /\ schema = InitializeSchema(DiscoverFullSchema(db)).schema
  /\ trading_elements = InitializeSchema(DiscoverFullSchema(db)).trading_elements
  /\ Discovered(db)
  /\ activities = <<>>
  /\ queryLog = <<>>
  /\ lastCall = NoCall
  /\ Unstarted
  /\ \E entity_id \in RowEntities, instrument \in RowInstruments,
        total_items \in RowTotals, cancelled_count \in 0..MaxTotal,
        n \in RowItemCounts, shape \in RowShapes :
       probe = [op |-> "args",
                result |-> Row(entity_id, instrument, total_items, cancelled_count,
                               RowItems(shape, n))]

ProbedRow(result, r) ==
  Probed([op |-> "row", result |-> result, out |-> r.out, activity |-> r.activity])

\* one pass of the loop of detect_spoofing_patterns on the row
ScoreSpoofingRow ==
  /\ probe.op = "args"
  /\ ProbedRow(probe.result,
               SpoofingRow(db, IdentifySpoofingElements(schema), 1, probe.result, 0))

\* one pass of the loop of detect_layering_patterns on the row
ScoreLayeringRow ==
  /\ probe.op = "args"
  /\ ProbedRow(probe.result,
               LayeringRow(db, IdentifyLayeringElements(schema), 1, probe.result, 0))

VolumeOut(result, o) ==
  Probed([op |-> "row", result |-> result,
          out |-> IF o.activities = <<>> THEN "skip" ELSE "ok",
          activity |-> IF o.activities = <<>> THEN NoneRecord ELSE o.activities[1]])

\* the row of a volume query: recent_count in total_items, the label in instrument
VolumeRow(result) == Row(None, "Order", result.total_items, 0, <<>>)

\* one pass of the loop of _detect_volume_anomalies on the row
ScoreVolumeRow ==
  /\ probe.op = "args"
  /\ VolumeOut(VolumeRow(probe.result),
               VolumeTried(db, "Order", 0, VolumeQuery("Order", "created_at"),
                           <<VolumeRow(probe.result)>>))

NextScore == ScoreSpoofingRow \/ ScoreLayeringRow \/ ScoreVolumeRow

SpecScore == InitScore /\ [][NextScore]_vars

\* ------------------------------------------------------ volume anomalies
\* detect_unusual_patterns on databases of few and of many nodes
VolumeTxCounts == {4, 51, 60}
VolumeRecentCounts == {0, 6, 50, 51, 60}
VolumeTotalCounts == {100, 170, 300}

VolumeOrderChoices ==
  {[recent |-> (1 :> 0 @@ 2 :> 0), total |-> 0]} \cup
  {[recent |-> (1 :> a @@ 2 :> b), total |-> t] :
     a \in VolumeRecentCounts, b \in VolumeRecentCounts \ {0}, t \in VolumeTotalCounts}

VolumeDbs ==
  {Database([i \in 1..n |-> TxKinds[IF i > 50 THEN 5 ELSE 1]], [Baseline EXCEPT !.orders = o]) :
     n \in VolumeTxCounts, o \in {c \in VolumeOrderChoices : c.recent[1] <= c.recent[2]}}

InitVolume ==
  /\ db \in VolumeDbs
  /\ schema = InitializeSchema(DiscoverFullSchema(db)).schema
  /\ trading_elements = InitializeSchema(DiscoverFullSchema(db)).trading_elements
  /\ Discovered(db)
  /\ activities = <<>>
  /\ queryLog = <<>>
  /\ lastCall = NoCall
  /\ Unstarted
  /\ probe = NoProbe

\* detector.detect_unusual_patterns(lookback_hours)
CallUnusual ==
  \E lookback_hours \in Lookbacks, u \in UuidDraws :
    Return("unusual", lookback_hours,
           DetectUnusualPatterns(db, schema, lookback_hours, u))

NextVolume == CallUnusual

SpecVolume == InitVolume /\ [][NextVolume]_vars

\* ------------------------------------------------------ enrichment alone
\* two transactions of T1, then two of T2
AccountTxs == <<TxKinds[1], TxKinds[1], TxKinds[3], TxKinds[3]>>

\* the account query answers, or raises
AccountDbs ==
  {[Database(AccountTxs, Baseline) EXCEPT !.accountLookup = l] : l \in {"up", "down"}}

\* ids of a transaction of T1, of a transaction of T2, and of no transaction
AccountIdPool == {1, 3, 9}
AccountListLengths == {0, 2, 6}

\* the lists of related items the enrichment is run on
AccountLists ==
  UNION {{[k \in 1..n |-> [t |-> "str", v |-> f[k]]] : f \in [1..n -> AccountIdPool]} :
           n \in AccountListLengths}

InitAccount ==
  /\ db \in AccountDbs
  /\ schema = InitializeSchema(DiscoverFullSchema(db)).schema
  /\ trading_elements = InitializeSchema(DiscoverFullSchema(db)).trading_elements
  /\ Discovered(db)
  /\ activities = <<>>
  /\ queryLog = <<>>
  /\ lastCall = NoCall
  /\ Unstarted
  /\ \E related_items \in AccountLists :
       probe = [op |-> "args", result |-> Row("T1", "AAPL", 5, 3, related_items)]

NextAccount == ScoreSpoofingRow \/ ScoreLayeringRow

SpecAccount == InitAccount /\ [][NextAccount]_vars

\* --------------------------------------------------------- schema discovery
(***************************************************************************)
(* schema_discovery on its own.  heap holds the dicts discover_full_schema *)
(* has allocated, schema_cache refers to one of them (NoRef for None),     *)
(* failing is the set of catalog sub-queries that raise.  probe holds the  *)
(* last call and what it returned.                                         *)
(***************************************************************************)
\* the builds one run may start
MaxSnapshots == 3

\* the catalogs discovery is run on
CatalogSettings ==
  Settings \cup {[Baseline EXCEPT !.txProps = <<"transaction_id", "timestamp", "amount">>]}

CatalogDbs == {Database([i \in 1..MaxTx |-> TxKinds[1]], s) : s \in CatalogSettings}

\* truth value of a dict whose labels list is empty
DictTruthyIfLabels(dict) == dict.node_labels # <<>>

\* truth value of a dict: it has a key
DictTruthy(dict) == DOMAIN dict # {}

\* if self._schema_cache and not force_refresh
CacheHit(cache, objects, force_refresh) ==
  cache # NoRef /\ DictTruthy(objects[cache]) /\ ~force_refresh

\* the queries a whole build issues
QueriesOfBuild(s) ==
  5 + 2 * Len(s.node_labels) + 1 + Cardinality(s.relationship_types)

\* discover_full_schema run without interleaving: the heap and the cache it
\* leaves, the dict it returns and the number of queries it issued
DiscoverOutcome(cache, objects, d, fails, force_refresh) ==
  IF CacheHit(cache, objects, force_refresh)
    THEN [heap |-> objects, schema_cache |-> cache, returned |-> cache, queries |-> 0]
  ELSE [heap |-> Append(objects, BuildSchema(d, fails)),
        schema_cache |-> Len(objects) + 1, returned |-> Len(objects) + 1,
        queries |-> QueriesOfBuild(BuildSchema(d, fails))]

InitDiscovery ==
  /\ db \in CatalogDbs
  /\ schema = EmptySchema
  /\ trading_elements = EmptyDict
  /\ activities = <<>>
  /\ queryLog = <<>>
  /\ lastCall = NoCall
  /\ Unstarted
  /\ probe = NoProbe
  /\ heap = <<>>
  /\ schema_cache = NoRef
  /\ failing \in SUBSET SubQueries
  /\ calls = IdleCalls

\* the call leaves o and the caller holds p
Discovering(o, p) ==
  /\ Len(o.heap) <= MaxSnapshots
  /\ heap' = o.heap
  /\ schema_cache' = o.schema_cache
  /\ probe' = p
  /\ UNCHANGED <<db, schema, trading_elements, activities, queryLog, lastCall,
                 failing, calls, monitoring>>

DiscoverReturned(o, force_refresh) ==
  Discovering(o, [op |-> "discover", force_refresh |-> force_refresh,
                  returned |-> o.returned, queries |-> o.queries])

\* schema_discovery.discover_full_schema()
DiscoverCached ==
  DiscoverReturned(DiscoverOutcome(schema_cache, heap, db, failing, FALSE), FALSE)

\* schema_discovery.discover_full_schema(force_refresh=True)
DiscoverRefresh ==
  DiscoverReturned(DiscoverOutcome(schema_cache, heap, db, failing, TRUE), TRUE)

ClassifyReturned(o, r) ==
  Discovering(o, [op |-> "classify", returned |-> o.returned, result |-> r])

\* schema_discovery.find_trading_related_nodes()
Classify ==
  ClassifyReturned(DiscoverOutcome(schema_cache, heap, db, failing, FALSE),
                   FindTradingRelatedNodes(DiscoverOutcome(schema_cache, heap, db, failing, FALSE).heap[DiscoverOutcome(schema_cache, heap, db, failing, FALSE).returned]))

NextDiscovery == DiscoverCached \/ DiscoverRefresh \/ Classify

SpecDiscovery == InitDiscovery /\ [][NextDiscovery]_vars

\* ------------------------------------------------- discovery, interleaved
(***************************************************************************)
(* discover_full_schema called from several threads.  A call is a frame:   *)
(* its position pc, the dict ref it builds or returns, what is left of the *)
(* loop it is in (todo).  A step is one statement of the method; the       *)
(* catalog sub-queries of a step fail or answer as failing says then.      *)
(***************************************************************************)
\* the catalogs and the outages of the interleaved runs
RefreshDbs == {Database([i \in 1..MaxTx |-> TxKinds[1]], Baseline)}
RefreshFails == {{}, {"node_properties", "node_count"}, SubQueries}

InitRefresh ==
  /\ db \in RefreshDbs
  /\ schema = EmptySchema
  /\ trading_elements = EmptyDict
  /\ activities = <<>>
  /\ queryLog = <<>>
  /\ lastCall = NoCall
  /\ Unstarted
  /\ probe = NoProbe
  /\ heap = <<>>
  /\ schema_cache = NoRef
  /\ failing = {}
  /\ calls = IdleCalls

\* the frame of caller c becomes f
Frame(c, f) ==
  /\ calls' = [calls EXCEPT ![c] = f]
  /\ UNCHANGED <<db, schema, trading_elements, activities, queryLog, lastCall,
                 probe, failing, monitoring>>

\* the cache as soon as the dict is allocated, were it cached before the loops
CacheWhileBuildingEarly(cache, ref) == ref

\* the cache while the dict ref is being built: lines 19-39 do not assign it
CacheWhileBuilding(cache, ref) == cache

\* return self._schema_cache
ReturnCached(c) ==
  /\ UNCHANGED <<heap, schema_cache>>
  /\ Frame(c, [pc |-> "returned", ref |-> schema_cache, cached |-> TRUE,
               seen |-> heap[schema_cache]])

\* schema = {...}: the dict is allocated with its five queried pieces
Allocate(c) ==
  /\ Len(heap) < MaxSnapshots
  /\ heap' = Append(heap, SchemaLiteral(db, failing))
  /\ schema_cache' = CacheWhileBuilding(schema_cache, Len(heap) + 1)
  /\ Frame(c, [pc |-> "labels", ref |-> Len(heap) + 1,
               todo |-> SchemaLiteral(db, failing).node_labels])

\* the call enters discover_full_schema
Enter(c) ==
  /\ calls[c].pc = "idle"
  /\ \E force_refresh \in BOOLEAN :
       IF CacheHit(schema_cache, heap, force_refresh) THEN ReturnCached(c)
       ELSE Allocate(c)

\* one pass of the loop over schema['node_labels']
SampleLabel(c) ==
  /\ calls[c].pc = "labels"
  /\ calls[c].todo # <<>>
  /\ heap' = [heap EXCEPT ![calls[c].ref] = WithLabel(db, failing, @, Head(calls[c].todo))]
  /\ UNCHANGED schema_cache
  /\ Frame(c, [calls[c] EXCEPT !.todo = Tail(@)])

\* schema['relationship_patterns'] = ..., then the loop over the types starts
Patterns(c) ==
  /\ calls[c].pc = "labels"
  /\ calls[c].todo = <<>>
  /\ heap' = [heap EXCEPT ![calls[c].ref] = WithPatterns(db, failing, @)]
  /\ UNCHANGED schema_cache
  /\ Frame(c, [pc |-> "rel_types", ref |-> calls[c].ref,
               todo |-> heap[calls[c].ref].relationship_types])

\* one pass of the loop over schema['relationship_types']
SampleRelType(c) ==
  /\ calls[c].pc = "rel_types"
  /\ calls[c].todo # {}
  /\ heap' = [heap EXCEPT ![calls[c].ref] =
                WithRelType(db, failing, @, CHOOSE r \in calls[c].todo : TRUE)]
  /\ UNCHANGED schema_cache
  /\ Frame(c, [calls[c] EXCEPT !.todo = @ \ {CHOOSE r \in calls[c].todo : TRUE}])

\* self._schema_cache = schema; return schema
Publish(c) ==
  /\ calls[c].pc = "rel_types"
  /\ calls[c].todo = {}
  /\ schema_cache' = calls[c].ref
  /\ UNCHANGED heap
  /\ Frame(c, [pc |-> "returned", ref |-> calls[c].ref, cached |-> FALSE,
               seen |-> heap[calls[c].ref]])

\* the caller is done with the dict it was given
Leave(c) ==
  /\ calls[c].pc = "returned"
  /\ UNCHANGED <<heap, schema_cache>>
  /\ Frame(c, [pc |-> "idle"])

\* sub-queries start or stop failing, between builds
Outage ==
  /\ \A c \in Callers : calls[c].pc \notin {"labels", "rel_types"}
  /\ failing' \in RefreshFails \ {failing}
  /\ UNCHANGED <<db, schema, trading_elements, activities, queryLog, lastCall,
                 probe, heap, schema_cache, calls, monitoring>>

NextRefresh ==
  \/ \E c \in Callers : Enter(c)
  \/ \E c \in Callers : SampleLabel(c)
  \/ \E c \in Callers : Patterns(c)
  \/ \E c \in Callers : SampleRelType(c)
  \/ \E c \in Callers : Publish(c)
  \/ \E c \in Callers : Leave(c)
  \/ Outage

SpecRefresh == InitRefresh /\ [][NextRefresh]_vars

\* ------------------------------------------- the detector over a lifetime
(***************************************************************************)
(* The module-level detector while the catalog of the database changes:    *)
(* the schema is refreshed through /api/schema/refresh, the detector runs  *)
(* _initialize_schema again, and detections are called in between.         *)
(***************************************************************************)
\* the Transaction catalogs the database moves between
LifeTxProps ==
  {<<"transaction_id", "timestamp", "status">>,
   <<"transaction_id", "created_at", "status", "symbol">>,
   <<"transaction_id", "Created_At", "status">>}

\* one cancelled and otherwise filled transactions of T1, all in the window
LifePopulations == {[i \in 1..MaxTx |-> TxKinds[IF i = 1 THEN 1 ELSE 2]]}

LifeDbs ==
  {Database(pop, [Baseline EXCEPT !.txProps = p]) : pop \in LifePopulations, p \in LifeTxProps}

InitLifecycle ==
  /\ db \in LifeDbs
  /\ schema = InitializeSchema(DiscoverFullSchema(db)).schema
  /\ trading_elements = InitializeSchema(DiscoverFullSchema(db)).trading_elements
  /\ Discovered(db)
  /\ activities = <<>>
  /\ queryLog = <<>>
  /\ lastCall = NoCall
  /\ Unstarted
  /\ probe = NoProbe

\* the Transaction nodes get another set of properties
Migrate ==
  /\ \E p \in LifeTxProps \ {db.txProps} : db' = [db EXCEPT !.txProps = p]
  /\ UNCHANGED <<schema, trading_elements, activities, queryLog, lastCall, probe, discovery,
                 monitoring>>

\* _initialize_schema once discover_full_schema has left o
InitializedFrom(o) ==
  /\ Len(o.heap) <= MaxSnapshots
  /\ heap' = o.heap
  /\ schema_cache' = o.schema_cache
  /\ schema' = InitializeSchema(o.heap[o.returned]).schema
  /\ trading_elements' = InitializeSchema(o.heap[o.returned]).trading_elements
  /\ probe' = [op |-> "initialize", returned |-> o.returned]
  /\ UNCHANGED <<db, activities, queryLog, lastCall, failing, calls, monitoring>>

\* adaptive_detector._initialize_schema()
Reinitialize ==
  InitializedFrom(DiscoverOutcome(schema_cache, heap, db, failing, FALSE))

NextLifecycle ==
  Migrate \/ DiscoverRefresh \/ Reinitialize \/ CallSpoofing \/ CallLayering \/ CallAll

SpecLifecycle == InitLifecycle /\ [][NextLifecycle]_vars

\* ----------------------------------------------- the locals of a detection
(***************************************************************************)
(* detect_spoofing_patterns / detect_layering_patterns with the local      *)
(* detection_config put on record: as config resolution returned it, and   *)
(* as it stands when the tiers of queries are over.                        *)
(***************************************************************************)
LadderDbs ==
  {Database(pop, [Baseline EXCEPT !.rel = r]) : pop \in TxPopulations, r \in RelChoices}

InitLadder ==
  /\ db \in LadderDbs
  /\ schema = InitializeSchema(DiscoverFullSchema(db)).schema
  /\ trading_elements = InitializeSchema(DiscoverFullSchema(db)).trading_elements
  /\ Discovered(db)
  /\ activities = <<>>
  /\ queryLog = <<>>
  /\ lastCall = NoCall
  /\ Unstarted
  /\ probe = NoProbe

\* detection_config as resolved, and as it stands after the tiers
Locals(detection_config, tiers) ==
  [op |-> "locals", resolved |-> detection_config, final |-> tiers.config]

LocalsQueried(family, d, s, detection_config, lookback_hours, query) ==
  IF query = NoneRecord THEN NoProbe
  ELSE Locals(detection_config,
              RunTiers(family, d, s, detection_config, query, lookback_hours))

LocalsResolved(family, d, s, lookback_hours, detection_config) ==
  IF detection_config = NoneRecord THEN NoProbe
  ELSE LocalsQueried(family, d, s, detection_config, lookback_hours,
                     BuildQuery(family, detection_config, s))

DetectionLocals(family, d, s, lookback_hours) ==
  LocalsResolved(family, d, s, lookback_hours, IdentifyElements(family, s))

\* the call returns r and leaves the locals p
Traced(family, lookback_hours, r, p) ==
  /\ activities' = r.activities
  /\ queryLog' = r.log
  /\ lastCall' = [op |-> family, lookback_hours |-> lookback_hours]
  /\ probe' = p
  /\ UNCHANGED <<db, schema, trading_elements, discovery, monitoring>>

TraceSpoofing ==
  \E lookback_hours \in Lookbacks :
    Traced("spoofing", lookback_hours,
           DetectSpoofingPatterns(db, schema, lookback_hours, 0),
           DetectionLocals("spoofing", db, schema, lookback_hours))

TraceLayering ==
  \E lookback_hours \in Lookbacks :
    Traced("layering", lookback_hours,
           DetectLayeringPatterns(db, schema, lookback_hours, 0),
           DetectionLocals("layering", db, schema, lookback_hours))

NextLadder == TraceSpoofing \/ TraceLayering

SpecLadder == InitLadder /\ [][NextLadder]_vars

\* ------------------------------------------------------------------- claims
\* a single-family call has returned
Detected == lastCall.op \in {"spoofing", "layering"}

\* the detection queries of a log: primary, alternates, system-wide
DetectionEntries(log) ==
  SelectSeq(log, LAMBDA e : e.tier \in {"primary", "alternate", "system_wide"})

\* the transaction an item of a finding names
ItemIndex(x) == IF x.v < 0 THEN 0 - x.v ELSE x.v

\* the group a finding was made from: the transactions its items name
GroupOf(a) ==
  {ItemIndex(a.related_trades[i]) : i \in DOMAIN a.related_trades} \cap DOMAIN db.txs

\* transaction i of the data is cancelled-like
CancelledItem(i) ==
  /\ "status" \in Range(db.txProps)
  /\ \E k \in {"cancel", "abort", "reject"} : KeywordIn(k, db.txs[i].status)

\* C1: every spoofing finding of detect_spoofing_patterns comes from a group
\* that holds at least one cancelled-like item and at least one item that is
\* not cancelled-like
C1_SpoofingNeedsMixedGroup ==
  lastCall.op = "spoofing" =>
    \A k \in DOMAIN activities :
       /\ \E i \in GroupOf(activities[k]) : CancelledItem(i)
       /\ \E i \in GroupOf(activities[k]) : ~CancelledItem(i)

\* the in-window transactions linked to a trader
TraderGroup(trader) ==
  {i \in DOMAIN db.txs :
     db.txs[i].trader = trader /\ db.txs[i].age <= lastCall.lookback_hours}

\* a trader's group qualifies for the family of the last call
Qualifies(trader) ==
  IF lastCall.op = "spoofing"
    THEN /\ \E i \in TraderGroup(trader) : CancelledItem(i)
         /\ \E i \in TraderGroup(trader) : ~CancelledItem(i)
  ELSE \/ Cardinality({i \in TraderGroup(trader) : db.txs[i].conn}) >= 3
       \/ Cardinality({i \in TraderGroup(trader) : ~db.txs[i].conn}) >= 3

\* the primary query gave no rows and the alternate relationship that links
\* the transactions to their traders gave the rows
AlternateGaveRows ==
  /\ Detected
  /\ Len(DetectionEntries(queryLog)) >= 2
  /\ DetectionEntries(queryLog)[1].rows = 0
  /\ LET last == DetectionEntries(queryLog)[Len(DetectionEntries(queryLog))]
     IN /\ last.tier = "alternate"
        /\ last.relationship = db.linkRel
        /\ last.rows > 0
  /\ \E trader \in {"T1", "T2"} : Qualifies(trader)

\* C2: when the primary query gives no rows and an alternate relationship of
\* the schema links the transactions to traders with qualifying groups, the
\* findings name those traders, never 'system_wide'
C2_AlternateNamesTheTrader ==
  AlternateGaveRows =>
    \A k \in DOMAIN activities : activities[k].trader_id # "system_wide"

\* the tiers in the order stated: the configured relationship, the listed
\* alternates the schema has (the configured one left out), system-wide
StatedOrder(configured) ==
  <<[tier |-> "primary", relationship |-> configured]>> \o
  [i \in 1..Len(SelectSeq(<<"PLACED_BY", "EXECUTED_BY", "OWNS", "HAS", "BELONGS_TO">>,
                          LAMBDA r : r \in db.relTypes /\ r # configured)) |->
     [tier |-> "alternate",
      relationship |->
        SelectSeq(<<"PLACED_BY", "EXECUTED_BY", "OWNS", "HAS", "BELONGS_TO">>,
                  LAMBDA r : r \in db.relTypes /\ r # configured)[i]]] \o
  <<[tier |-> "system_wide", relationship |-> None]>>

\* the executed queries are a prefix of the stated order that ends at the
\* first query with rows
StopsAtFirstRows(entries, stated) ==
  /\ Len(entries) <= Len(stated)
  /\ \A i \in DOMAIN entries :
        /\ entries[i].tier = stated[i].tier
        /\ entries[i].relationship = stated[i].relationship
        /\ i < Len(entries) => entries[i].rows = 0
  /\ entries[Len(entries)].rows = 0 => Len(entries) = Len(stated)

\* every finding is made from a row of the last query executed
BuiltFromRows(rows) ==
  /\ Len(activities) <= Len(rows)
  /\ \A k \in DOMAIN activities :
        \E j \in DOMAIN rows :
           /\ activities[k].trader_id = rows[j].entity_id
           /\ activities[k].confidence_score =
                CalculateConfidenceScore(rows[j], lastCall.op)

\* C3: the detection queries run in the order configured relationship, then
\* PLACED_BY, EXECUTED_BY, OWNS, HAS, BELONGS_TO (those of the schema, the
\* configured one left out), then system-wide; no query runs after the first
\* one that gives rows, and the findings are built from that query's rows
C3_TiersInOrderUntilRows ==
  (Detected /\ queryLog # <<>>) =>
    /\ StopsAtFirstRows(DetectionEntries(queryLog),
                        StatedOrder(DetectionEntries(queryLog)[1].relationship))
    /\ BuiltFromRows(ExecuteQuery(db,
                                  DetectionEntries(queryLog)
                                    [Len(DetectionEntries(queryLog))].query,
                                  lastCall.lookback_hours))

\* the whole ladder ran and its last query gave the rows of a finding
C3_Witness ==
  /\ Detected
  /\ Len(DetectionEntries(queryLog)) = 4
  /\ DetectionEntries(queryLog)[4].tier = "system_wide"
  /\ activities # <<>>

ActivityIds(acts) == {acts[k].activity_id : k \in DOMAIN acts}

\* C4: detect_all_patterns run again on the same database, schema and
\* lookback window gives the same set of activity ids
C4_SameIdsOnRerun ==
  [][(lastCall.op = "all" /\ lastCall' = lastCall) =>
       ActivityIds(activities') = ActivityIds(activities)]_vars

\* C5: two orderings of the same related items, of any length, give the same
\* activity id
C5_IdIgnoresOrder ==
  probe.op = "ids" => probe.first = probe.second

\* the band of a score: CRITICAL from 0.9, HIGH from 0.8, MEDIUM from 0.7
Band(score) ==
  IF score.n * 10 >= 9 * score.d THEN "CRITICAL"
  ELSE IF score.n * 10 >= 8 * score.d THEN "HIGH"
  ELSE IF score.n * 10 >= 7 * score.d THEN "MEDIUM"
  ELSE "LOW"

\* C6: the severity of every finding of every family is the band of the
\* finding's own confidence score
C6_SeverityIsBandOfScore ==
  \A k \in DOMAIN activities :
     activities[k].severity = Band(activities[k].confidence_score)

\* C7: with PLACED_BY absent from the schema's relationship types, the config
\* has no entity link and the first query executed is the system-wide one
C7_NoLinkWithoutPlacedBy ==
  (Detected /\ queryLog # <<>> /\ "PLACED_BY" \notin schema.relationship_types) =>
    /\ queryLog[1].relationship = None
    /\ queryLog[1].query.trader_id_prop = None

\* C8: every label and property name interpolated into the text of a query
\* is a name of the schema snapshot: the label a node label, the property a
\* property of the label it is read on
C8_InterpolatedNamesAreInSchema ==
  \A i \in DOMAIN queryLog :
     /\ InterpolatedLabels(queryLog[i].query) \subseteq Range(schema.node_labels)
     /\ \A p \in InterpolatedProps(queryLog[i].query) :
           p.name \in Range(NodeProps(schema, p.label))

\* no property of the Transaction catalog has a temporal keyword in its
\* lower-cased name
NoTemporalProperty ==
  \A i \in DOMAIN db.txProps :
     \A k \in {"timestamp", "time", "date", "created", "updated", "when"} :
        ~KeywordIn(k, db.txProps[i])

\* C9: with no temporal property on the primary entity, detect_spoofing_patterns
\* and detect_layering_patterns return an empty list and execute no query
C9_NoTemporalPropertyNoDetection ==
  (Detected /\ NoTemporalProperty) => (activities = <<>> /\ queryLog = <<>>)

\* a detection has returned on a catalog without a temporal property, over
\* data that holds cancelled and executed transactions
C9_Witness ==
  /\ Detected
  /\ NoTemporalProperty
  /\ \E i, j \in DOMAIN db.txs : CancelledItem(i) /\ ~CancelledItem(j)

\* C10: the confidence score of every finding made from a row, of any
\* family and whatever the row holds, is within [0, 1]
C10_ScoreWithinUnitInterval ==
  (probe.op = "row" /\ probe.out = "ok") =>
    /\ probe.activity.confidence_score.d > 0
    /\ probe.activity.confidence_score.n >= 0
    /\ probe.activity.confidence_score.n <= probe.activity.confidence_score.d

\* a spoofing row whose unclamped score is above 1 has produced a finding
C10_Witness ==
  /\ probe.op = "row"
  /\ probe.out = "ok"
  /\ probe.activity.pattern_type = "SPOOFING"
  /\ probe.result.total_items >= 20
  /\ probe.result.cancelled_count = probe.result.total_items
  /\ probe.activity.confidence_score.n = probe.activity.confidence_score.d

\* the in-window transactions
WindowGroup == {i \in DOMAIN db.txs : db.txs[i].age <= lastCall.lookback_hours}

\* the group a finding stands for: the in-window transactions of its trader,
\* or all of them for a system-wide finding
FindingGroup(a) ==
  IF a.trader_id = "system_wide" THEN WindowGroup ELSE TraderGroup(a.trader_id)

\* C11: every layering finding of detect_layering_patterns, from any tier,
\* stands for a group of at least 3 in-window items and lists at least 3
\* related items; a group of 1 or 2 in-window items yields no finding
C11_LayeringNeedsThreeItems ==
  lastCall.op = "layering" =>
    \A k \in DOMAIN activities :
       /\ Cardinality(FindingGroup(activities[k])) >= 3
       /\ Len(activities[k].related_trades) >= 3

\* C12: the related_trades of every finding made from a row hold at most 10
\* entries once the row's related items are flattened, whatever their shape
C12_AtMostTenRelatedTrades ==
  (probe.op = "row" /\ probe.out = "ok") =>
    Len(probe.activity.related_trades) <= QueryItemLimit

\* the property roles of the index and the keyword list of each
PropertyRoles ==
  {<<"temporal_properties", "time_keywords">>, <<"price_properties", "price_keywords">>,
   <<"quantity_properties", "quantity_keywords">>}

\* the entity-type roles of the index and the keyword list of each
NodeRoles ==
  {<<"potential_trader_nodes", "trader_keywords">>,
   <<"potential_order_nodes", "order_keywords">>,
   <<"potential_trade_nodes", "trade_keywords">>,
   <<"potential_instrument_nodes", "instrument_keywords">>}

\* the index lists the property of the label under the role
ListsProperty(index, role, label, prop) ==
  \E i \in DOMAIN index[role] :
    index[role][i].label = label /\ index[role][i].property = Lower(prop)

ListsNode(index, role, label) ==
  \E i \in DOMAIN index[role] : index[role][i].label = label

\* every match of the catalog s is in the index
RetainsEveryMatch(s, index) ==
  /\ \A label \in DOMAIN s.node_properties, role \in PropertyRoles :
       \A i \in DOMAIN s.node_properties[label] :
         (\E k \in Range(TradingIndicators[role[2]]) :
             KeywordIn(k, s.node_properties[label][i]))
           => ListsProperty(index, role[1], label, s.node_properties[label][i])
  /\ \A label \in DOMAIN s.node_properties, role \in NodeRoles :
       (\E k \in Range(TradingIndicators[role[2]]) : KeywordIn(k, label))
         => ListsNode(index, role[1], label)

\* C13: find_trading_related_nodes is total and retains every match: on every
\* catalog, whatever the letter case of its property names, the call returns
\* an index (it does not raise), and the index lists every property whose
\* lower-cased name contains a temporal, price or quantity keyword under that
\* role and every entity type whose lower-cased name contains a trader,
\* order, trade or instrument keyword under that role.
C13_ClassifyIsTotal ==
  probe.op = "classify" =>
    /\ ~probe.result.raised
    /\ RetainsEveryMatch(heap[probe.returned], probe.result.index)

\* the keys of a snapshot
SnapshotKeys ==
  {"node_labels", "relationship_types", "property_keys", "node_properties",
   "relationship_properties", "node_counts", "relationship_patterns", "indexes",
   "constraints"}

\* the value of a piece: empty when its sub-query failed, the data otherwise
Degraded(name, empty, data) == IF name \in failing THEN empty ELSE data

\* the snapshot s has every key, every label it lists has its properties and
\* its count, every relationship type it lists has its properties
CompleteSnapshot(s) ==
  /\ DOMAIN s = SnapshotKeys
  /\ DOMAIN s.node_properties = Range(s.node_labels)
  /\ DOMAIN s.node_counts = Range(s.node_labels)
  /\ DOMAIN s.relationship_properties = s.relationship_types

\* C14: discover_full_schema never raises: whatever subset of the catalog
\* sub-queries fails, a call that builds returns a complete snapshot in which
\* each piece whose sub-query failed is the empty value (empty list, empty
\* map, 0) and each other piece is the data the database returned, the
\* per-label pieces ranging over the labels the snapshot lists.
C14_FailedPiecesAreEmpty ==
  (probe.op = "discover" /\ probe.queries > 0) =>
    /\ CompleteSnapshot(heap[probe.returned])
    /\ heap[probe.returned].node_labels = Degraded("labels", <<>>, NodeLabels(db))
    /\ heap[probe.returned].relationship_types
         = Degraded("relationship_types", {}, db.relTypes)
    /\ heap[probe.returned].property_keys
         = Degraded("property_keys", {},
                    UNION {Range(LabelProps(db, l)) : l \in Range(NodeLabels(db))})
    /\ heap[probe.returned].relationship_patterns
         = Degraded("relationship_patterns", <<>>, RelationshipPatterns(db))
    /\ heap[probe.returned].indexes = Degraded("indexes", <<>>, Indexes(db))
    /\ heap[probe.returned].constraints = Degraded("constraints", <<>>, Constraints(db))
    /\ \A l \in Range(heap[probe.returned].node_labels) :
         /\ heap[probe.returned].node_properties[l]
              = Degraded("node_properties", <<>>, LabelProps(db, l))
         /\ heap[probe.returned].node_counts[l]
              = Degraded("node_count", 0, LabelCount(db, l))

\* a build during which the sampling and the index sub-queries failed and the
\* others answered
C14_Witness ==
  /\ probe.op = "discover"
  /\ probe.queries > 0
  /\ failing = {"node_properties", "indexes"}
  /\ heap[probe.returned].node_labels # <<>>
  /\ heap[probe.returned].indexes = <<>>
  /\ heap[probe.returned].constraints # <<>>

\* the step is a call discover_full_schema(force_refresh=False), made directly
\* or by find_trading_related_nodes
CachedCallStep ==
  \/ probe'.op = "discover" /\ ~probe'.force_refresh
  \/ probe'.op = "classify"

\* C16: once a call has built a snapshot, every later
\* discover_full_schema(force_refresh=False) returns that same snapshot and
\* issues no database query, until a call with force_refresh=True; also when
\* the snapshot was built while every catalog sub-query failed.
C16_CachedUntilRefresh ==
  [][(schema_cache # NoRef /\ CachedCallStep) =>
       /\ probe'.returned = schema_cache
       /\ schema_cache' = schema_cache
       /\ heap' = heap
       /\ (probe'.op = "discover" => probe'.queries = 0)]_vars

\* a cached call answered from a snapshot built while every sub-query failed
C16_Witness ==
  /\ probe.op = "discover"
  /\ ~probe.force_refresh
  /\ probe.queries = 0
  /\ failing = SubQueries
  /\ probe.returned = schema_cache
  /\ heap[probe.returned].node_labels = <<>>
  /\ heap[probe.returned].node_properties = <<>>

\* some call is still building the dict ref
UnderConstruction(ref) ==
  \E c \in Callers : calls[c].pc \in {"labels", "rel_types"} /\ calls[c].ref = ref

\* C15: when discover_full_schema(force_refresh=True) runs concurrently with
\* callers of discover_full_schema(force_refresh=False), every snapshot a
\* reader obtains from the cache is a complete one, the old or the new: the
\* cache never refers to a dict that is still being built, and a dict a
\* reader was given from the cache stays as the reader got it.
C15_ReadersSeeCompleteSnapshots ==
  /\ schema_cache # NoRef =>
       ~UnderConstruction(schema_cache) /\ CompleteSnapshot(heap[schema_cache])
  /\ \A c \in Callers :
       (calls[c].pc = "returned" /\ calls[c].cached) =>
         /\ ~UnderConstruction(calls[c].ref)
         /\ CompleteSnapshot(calls[c].seen)
         /\ heap[calls[c].ref] = calls[c].seen

\* a reader holds the old snapshot while a refresh is building the new one
\* during an outage
C15_Witness ==
  /\ calls[1].pc = "returned"
  /\ calls[1].cached
  /\ calls[2].pc = "rel_types"
  /\ calls[1].ref = schema_cache
  /\ calls[2].ref # schema_cache
  /\ heap[calls[2].ref] # heap[calls[1].ref]

\* what a family finds when called on its own
FamilyAlone(family, lookback_hours, u) ==
  CASE family = "spoofing" -> DetectSpoofingPatterns(db, schema, lookback_hours, u).activities
    [] family = "layering" -> DetectLayeringPatterns(db, schema, lookback_hours, u).activities
    [] OTHER -> DetectUnusualPatterns(db, schema, lookback_hours, u).activities

\* the findings of the families whose queries answer, in call order
RECURSIVE OthersFindings(_, _, _)
OthersFindings(families, lookback_hours, u) ==
  IF families = <<>> THEN <<>>
  ELSE (IF Head(families) \in failing THEN <<>>
        ELSE FamilyAlone(Head(families), lookback_hours, u))
       \o OthersFindings(Tail(families), lookback_hours, u + 10)

Linked(item) ==
  IF db.accountLookup = "up" /\ item.v \in DOMAIN db.txs
    THEN AccountOfTrader(db.txs[item.v].trader)
  ELSE None

\* how many of the items are linked to the account
LinkCount(items, account) == Cardinality({k \in DOMAIN items : Linked(items[k]) = account})

\* the first five of the related trades of the finding
Inspected == SubSeq(probe.activity.related_trades, 1, Min(5, Len(probe.activity.related_trades)))

TotalOf(label) ==
  CASE label = "Order" -> db.orders.total
    [] label = "Transaction" -> Len(db.txs)
    [] OTHER -> 0

RecentOf(label) ==
  CASE label = "Order" -> db.orders.recent[lastCall.lookback_hours]
    [] label = "Transaction" ->
         Cardinality({i \in DOMAIN db.txs : db.txs[i].age <= lastCall.lookback_hours})
    [] OTHER -> 0

\* the label has a property whose name contains a temporal keyword
HasTemporalProperty(label) ==
  \E p \in Range(LabelProps(db, label)) : \E k \in TimeKeywords : KeywordIn(k, p)

\* C19: a volume finding is produced for an entity type L only if L has a
\* temporal property, L is not the primary order/transaction entity type
\* (Transaction), the count of L inside the lookback window exceeds 30% of
\* the total count of L, and that recent count exceeds 50; a run produces at
\* most one such finding per entity type.
C19_VolumeFindingConditions ==
  lastCall.op = "unusual" =>
    \A k \in DOMAIN activities :
      /\ activities[k].instrument \in Range(NodeLabels(db))
      /\ HasTemporalProperty(activities[k].instrument)
      /\ activities[k].instrument # "Transaction"
      /\ 10 * RecentOf(activities[k].instrument) > 3 * TotalOf(activities[k].instrument)
      /\ RecentOf(activities[k].instrument) > 50
      /\ \A j \in DOMAIN activities :
           activities[j].instrument = activities[k].instrument => j = k

\* a run that flags Order while more than 50 transactions, all of them, are
\* inside the window
C19_Witness ==
  /\ lastCall.op = "unusual"
  /\ Len(activities) = 1
  /\ activities[1].instrument = "Order"
  /\ RecentOf("Transaction") > 50
  /\ 10 * RecentOf("Transaction") > 3 * TotalOf("Transaction")

\* the volume bonus of the stated formula, in hundredths
StatedBonus(total_items) ==
  IF total_items >= 20 THEN 20 ELSE IF total_items >= 10 THEN 10 ELSE 0

\* 100 * max(total_items, 1) times the stated sum
\* 0.5 + 0.4 * cancelled_count / max(total_items, 1) + bonus
StatedSum(cancelled_count, total_items) ==
  (50 + StatedBonus(total_items)) * Max(total_items, 1) + 40 * cancelled_count

\* the score is min(1, stated sum)
EqualsStated(score, cancelled_count, total_items) ==
  IF StatedSum(cancelled_count, total_items) > 100 * Max(total_items, 1)
  THEN score.n = score.d
  ELSE score.n * 100 * Max(total_items, 1) = StatedSum(cancelled_count, total_items) * score.d

\* a spoofing row with cancelled_count <= total_items has been scored
SpoofingRowScored ==
  /\ probe.op = "row"
  /\ probe.out = "ok"
  /\ probe.activity.pattern_type = "SPOOFING"
  /\ probe.result.cancelled_count <= probe.result.total_items

\* C20: the score of a spoofing row with 0 <= cancelled_count <= total_items
\* is min(1, 0.5 + 0.4 * cancelled_count / max(total_items, 1) + bonus), the
\* bonus 0.2 from 20 items, 0.1 from 10 items and 0 below, the double being
\* that value up to the rounding of its last sum; 3 cancelled out of 5 gives
\* 0.74 and severity MEDIUM
C20_SpoofingScoreFormula ==
  SpoofingRowScored =>
    /\ EqualsStated(probe.activity.confidence_score,
                    probe.result.cancelled_count, probe.result.total_items)
    /\ (probe.result.cancelled_count = 3 /\ probe.result.total_items = 5) =>
         /\ probe.activity.confidence_score.n * 100 = 74 * probe.activity.confidence_score.d
         /\ ~probe.activity.confidence_score.under
         /\ probe.activity.severity = "MEDIUM"

\* the row of 3 cancelled out of 5 has given a finding of severity MEDIUM
C20_Witness ==
  /\ SpoofingRowScored
  /\ probe.result.cancelled_count = 3
  /\ probe.result.total_items = 5
  /\ probe.activity.severity = "MEDIUM"

\* the stated layering sum 0.6 + v + i + e + r, in hundredths
StatedLayeringSum(result) ==
  60 + (IF result.total_items >= 10 THEN 30
        ELSE IF result.total_items >= 5 THEN 20
        ELSE IF result.total_items >= 3 THEN 10 ELSE 0)
     + (IF result.instrument = "unknown" THEN 0 ELSE 10)
     + (IF result.entity_id = "system_wide" THEN 0 ELSE 10)
     + (IF Len(result.related_items) >= 5 THEN 10
        ELSE IF Len(result.related_items) >= 3 THEN 5 ELSE 0)

\* a row of a layering query (its group key a trader or system_wide) has
\* been scored
LayeringRowScored ==
  /\ probe.op = "row"
  /\ probe.out = "ok"
  /\ probe.result.entity_id # None
  /\ probe.activity.pattern_type = "LAYERING"

\* C21: the score of every layering row is min(1, 0.6 + v + i + e + r), with
\* v 0.3 / 0.2 / 0.1 from 10 / 5 / 3 items, i 0.1 for a known instrument,
\* e 0.1 for an entity-specific row and r 0.1 / 0.05 from 5 / 3 related
\* items, the double being that value up to the rounding of its sums
C21_LayeringScoreFormula ==
  LayeringRowScored =>
    probe.activity.confidence_score.n * 100 =
      Min(100, StatedLayeringSum(probe.result)) * probe.activity.confidence_score.d

\* a system-wide layering row of 5 items, known instrument and 3 related
\* items has been scored 0.95
C21_Witness ==
  /\ LayeringRowScored
  /\ probe.result.entity_id = "system_wide"
  /\ probe.result.instrument # "unknown"
  /\ probe.result.total_items = 5
  /\ Len(probe.result.related_items) = 3
  /\ probe.activity.confidence_score.n * 100 = 95 * probe.activity.confidence_score.d

\* the by-trader layering query was the one that gave the findings
EntityLinkedLayering ==
  /\ lastCall.op = "layering"
  /\ queryLog # <<>>
  /\ DetectionEntries(queryLog)[1].query.form = "layer_by_trader"
  /\ DetectionEntries(queryLog)[1].rows > 0

\* the items of the trader's in-window group that take part in a CONNECTED_TO
\* link, and those that take part in none
LinkedOf(trader) == {i \in TraderGroup(trader) : db.txs[i].conn}
UnlinkedOf(trader) == {i \in TraderGroup(trader) : ~db.txs[i].conn}

\* the findings that name the trader
FindingsOf(trader) == {k \in DOMAIN activities : activities[k].trader_id = trader}

\* the finding lists n distinct items, all of the given set
ListsFrom(a, n, items) ==
  /\ Len(a.related_trades) = n
  /\ Cardinality(GroupOf(a)) = n
  /\ GroupOf(a) \subseteq items

\* what the trader's group gives: the connected subset when it has 3 items,
\* else the first 3 unlinked items when there are 3, else nothing
StatedLayeringItems(trader) ==
  IF Cardinality(LinkedOf(trader)) >= 3
    THEN \A k \in FindingsOf(trader) :
            ListsFrom(activities[k], Min(Cardinality(LinkedOf(trader)), QueryItemLimit),
                      LinkedOf(trader))
  ELSE IF Cardinality(UnlinkedOf(trader)) >= 3
    THEN \A k \in FindingsOf(trader) :
            ListsFrom(activities[k], 3, UnlinkedOf(trader))
  ELSE FindingsOf(trader) = {}

\* a trader of 4 in-window items, 3 of them linked, with a known instrument
StatedExample(trader) ==
  /\ Cardinality(TraderGroup(trader)) = 4
  /\ Cardinality(LinkedOf(trader)) = 3
  /\ db.security # None

\* one finding, 3 related items, score 0.95, CRITICAL
StatedExampleFinding(trader) ==
  /\ Cardinality(FindingsOf(trader)) = 1
  /\ \A k \in FindingsOf(trader) :
        /\ Len(activities[k].related_trades) = 3
        /\ activities[k].confidence_score.n * 100 = 95 * activities[k].confidence_score.d
        /\ activities[k].severity = "CRITICAL"

\* C22: in entity-linked layering detection the finding of a trader with at
\* least 3 in-window items lists exactly the connected subset (at most 10
\* identifiers) when at least 3 items are linked, else the first 3 unlinked
\* items when at least 3 are unlinked; 4 items with 3 linked and a known
\* instrument give one finding of 3 items, score 0.95, severity CRITICAL
C22_ConnectedSubsetPreferred ==
  EntityLinkedLayering =>
    \A trader \in Range(TraderOrder) :
       /\ Cardinality(TraderGroup(trader)) >= 3 => StatedLayeringItems(trader)
       /\ StatedExample(trader) => StatedExampleFinding(trader)

\* the pattern type that names the family an entry point runs
FamilyPatternType(op) ==
  CASE op = "spoofing" -> "SPOOFING"
    [] op = "layering" -> "LAYERING"
    [] op = "unusual" -> "VOLUME_ANOMALY"

\* C23: the pattern_type of every finding names the family that produced it
\* (SPOOFING, LAYERING, VOLUME_ANOMALY) and is the family name hashed into
\* the finding's activity id
C23_PatternTypeNamesFamily ==
  lastCall.op \in {"spoofing", "layering", "unusual"} =>
    \A k \in DOMAIN activities :
       /\ activities[k].pattern_type = FamilyPatternType(lastCall.op)
       /\ activities[k].activity_id.kind = "md5" =>
            activities[k].activity_id.key[1] = activities[k].pattern_type

\* a detection call returns while the cache holds a snapshot built by a
\* forced refresh
DetectsAfterRefresh(op) ==
  /\ Len(heap) > 1
  /\ schema_cache = Len(heap)
  /\ UNCHANGED <<db, heap, schema_cache, schema, trading_elements>>
  /\ lastCall'.op = op

\* the queries the call would issue with the snapshot s
LogWith(op, s) ==
  IF op = "all"
    THEN DetectAllPatterns(db, s, InitializeSchema(s).trading_elements,
                           lastCall'.lookback_hours, 0, failing).log
  ELSE DetectFamily(op, db, s, lastCall'.lookback_hours, 0).log

\* C24: once a forced refresh has replaced the cached snapshot, every later
\* detect_spoofing_patterns, detect_layering_patterns and detect_all_patterns
\* call issues the queries of the config resolved from the refreshed
\* snapshot, not from the one captured at initialisation
C24_DetectionUsesRefreshedSnapshot ==
  [][\A op \in {"spoofing", "layering", "all"} :
       DetectsAfterRefresh(op) => queryLog' = LogWith(op, heap[schema_cache])]_vars

\* the lower-cased name contains one of timestamp, time, date, created,
\* updated, when
Temporal(name) ==
  \E k \in {"timestamp", "time", "date", "created", "updated", "when"} : KeywordIn(k, name)

\* C25: _find_temporal_property returns the first property, in catalog
\* order, whose lower-cased name contains one of the temporal keywords,
\* whatever keyword that is, and returns None exactly when no name contains
\* any of them
C25_FirstTemporalPropertyWins ==
  probe.op = "temporal" =>
    /\ probe.returned = None <=> \A i \in DOMAIN probe.properties : ~Temporal(probe.properties[i])
    /\ \A i \in DOMAIN probe.properties :
          (Temporal(probe.properties[i]) /\ \A j \in 1..(i - 1) : ~Temporal(probe.properties[j]))
            => probe.returned = probe.properties[i]

\* the catalog lists created_at before timestamp, and created_at is returned
C25_Witness ==
  /\ probe.op = "temporal"
  /\ Len(probe.properties) >= 2
  /\ probe.properties[1] = "created_at"
  /\ probe.properties[2] = "timestamp"
  /\ probe.returned = "created_at"

\* alternate relationships were tried and none gave rows
AlternatesFailed ==
  /\ probe.op = "locals"
  /\ \E i \in DOMAIN queryLog : queryLog[i].tier = "alternate"
  /\ \A i \in DOMAIN queryLog : queryLog[i].tier = "alternate" => queryLog[i].rows = 0

\* C26: after the loop over the alternate relationships has ended without
\* rows, detection_config['entity_connection']['relationship'] is still the
\* relationship config resolution chose
C26_FailedAlternatesLeaveConfig ==
  AlternatesFailed =>
    probe.final.entity_connection.relationship =
      probe.resolved.entity_connection.relationship

\* a row of a spoofing or layering query has gone through the row loop
FamilyRowDone ==
  /\ probe.op = "row"
  /\ probe.result.entity_id # None
  /\ probe.result.total_items >= 0
  /\ probe.result.cancelled_count >= 0

\* the least score of the family the row was scored for, in hundredths
BaseScore(activity) == IF activity.pattern_type = "SPOOFING" THEN 50 ELSE 60

\* C27: the 0.4 floor discards no spoofing or layering row: the score is at
\* least 0.5 (spoofing) or 0.6 (layering), so every row whose processing
\* raises nothing becomes a finding
C27_FloorDiscardsNoRow ==
  FamilyRowDone =>
    /\ probe.out # "skip"
    /\ probe.activity.confidence_score.n * 100 >=
         BaseScore(probe.activity) * probe.activity.confidence_score.d

\* a spoofing row of no items at all, scored exactly 0.5, became a finding
C27_Witness ==
  /\ FamilyRowDone
  /\ probe.out = "ok"
  /\ probe.activity.pattern_type = "SPOOFING"
  /\ probe.result.total_items = 0
  /\ probe.result.cancelled_count = 0
  /\ probe.activity.confidence_score.n * 2 = probe.activity.confidence_score.d

\* the detector holds the fallback of _initialize_schema
FellBack == schema = EmptySchema /\ trading_elements = EmptyDict

\* the step is a run of _initialize_schema on the snapshot the cache holds
InitializeStep ==
  /\ probe'.op = "initialize"
  /\ <<probe, schema, trading_elements>>' # <<probe, schema, trading_elements>>

\* the step is a detection call that returned
DetectionStep ==
  <<activities, queryLog, lastCall>>' # <<activities, queryLog, lastCall>>

\* C28: when find_trading_related_nodes raises inside _initialize_schema the
\* detector is left with the empty schema and the empty role index although
\* discover_full_schema returned a snapshot with labels; while it holds them
\* every detect_all_patterns, detect_spoofing_patterns and
\* detect_layering_patterns call returns no finding and issues no query, and
\* only a run of _initialize_schema whose classification does not raise
\* replaces them
C28_FailedClassificationSilencesDetector ==
  [][/\ (InitializeStep /\ FindTradingRelatedNodes(heap'[probe'.returned]).raised)
         => (FellBack' /\ heap'[probe'.returned].node_labels # <<>>)
     /\ (FellBack /\ DetectionStep) => (activities' = <<>> /\ queryLog' = <<>>)
     /\ (FellBack /\ ~FellBack')
         => (InitializeStep /\ ~FindTradingRelatedNodes(heap'[probe'.returned]).raised)]_vars

\* _initialize_schema fell back on a refreshed snapshot, the catalog has been
\* repaired since, and detect_all_patterns was called and returned nothing
C28_Witness ==
  /\ FellBack
  /\ probe.op = "initialize"
  /\ Len(heap) >= 2
  /\ FindTradingRelatedNodes(heap[probe.returned]).raised
  /\ ~FindTradingRelatedNodes(DiscoverFullSchema(db)).raised
  /\ lastCall.op = "all"
  /\ activities = <<>>
  /\ queryLog = <<>>

\* ------------------------------------------- databases without Transaction
(***************************************************************************)
(* The detector on databases that hold no Transaction node, or Transaction *)
(* nodes without any property, next to Order nodes that carry created_at.  *)
(***************************************************************************)
ResolveTxProps ==
  {<<>>, <<"transaction_id", "timestamp", "status">>, <<"transaction_id", "status", "price">>}

\* no transaction, one cancelled and otherwise filled transactions of T1, or
\* cancelled transactions of T1 only
ResolvePopulations ==
  {<<>>} \cup LifePopulations \cup {[i \in 1..MaxTx |-> TxKinds[1]]}

ResolveDbs ==
  {Database(pop, [Baseline EXCEPT !.txProps = p, !.orders = o]) :
     pop \in ResolvePopulations, p \in ResolveTxProps, o \in OrderChoices}

InitResolve ==
  /\ db \in ResolveDbs
  /\ schema = InitializeSchema(DiscoverFullSchema(db)).schema
  /\ trading_elements = InitializeSchema(DiscoverFullSchema(db)).trading_elements
  /\ Discovered(db)
  /\ activities = <<>>
  /\ queryLog = <<>>
  /\ lastCall = NoCall
  /\ Unstarted
  /\ probe = NoProbe

NextResolve == CallSpoofing \/ CallLayering \/ CallAll

SpecResolve == InitResolve /\ [][NextResolve]_vars

\* the snapshot lists no 'Transaction' type, or lists it with an empty catalog
NoTransactionCatalog ==
  \/ \A i \in DOMAIN schema.node_labels : schema.node_labels[i] # "Transaction"
  \/ "Transaction" \notin DOMAIN schema.node_properties
  \/ schema.node_properties["Transaction"] = <<>>

\* another entity type named like an order carries a temporal property
OrderLikeWithTime ==
  \E i \in DOMAIN schema.node_labels :
    /\ schema.node_labels[i] # "Transaction"
    /\ KeywordIn("order", schema.node_labels[i])
    /\ FindTemporalProperty(NodeProps(schema, schema.node_labels[i])) # None

\* C29: when the snapshot has no entity type named 'Transaction', or that
\* type has an empty property catalog, _identify_spoofing_elements and
\* _identify_layering_elements return None whatever other types the snapshot
\* lists, and detect_spoofing_patterns / detect_layering_patterns return no
\* finding and issue no query
C29_NoTransactionNoConfig ==
  NoTransactionCatalog =>
    /\ IdentifySpoofingElements(schema) = NoneRecord
    /\ IdentifyLayeringElements(schema) = NoneRecord
    /\ lastCall.op \in {"spoofing", "layering"} => (activities = <<>> /\ queryLog = <<>>)

\* no Transaction type but Order nodes with created_at, and a family was called
C29_Witness ==
  /\ \A i \in DOMAIN schema.node_labels : schema.node_labels[i] # "Transaction"
  /\ OrderLikeWithTime
  /\ lastCall.op = "spoofing"
  /\ activities = <<>>
  /\ queryLog = <<>>

\* ----------------------------------------------------- continuous monitoring
(***************************************************************************)
(* The monitoring globals of main.py and the tasks on the event loop.  A   *)
(* task is [config, pc, must_cancel]: the config object it was created     *)
(* with, the await it is suspended at ("created" before its first step,    *)
(* "cycle" in run_surveillance_cycle, "sleep" and "retry" in the two       *)
(* asyncio.sleep calls, "returned" and "cancelled" when done), and whether *)
(* cancel() was called on it.  A handler without await runs in one step.   *)
(***************************************************************************)
MaxTasks == 3

\* the configs a client posts
Configs == [enabled : BOOLEAN, check_interval_minutes : {1, 5}]

\* asyncio.create_task(surveillance_agent.continuous_monitoring(config))
CreateTask(config) == [config |-> config, pc |-> "created", must_cancel |-> FALSE]

\* task.done()
Done(task) == task.pc \in {"returned", "cancelled"}

\* a cancel() that requests nothing
CancelIgnored(task) == task

\* task.cancel(): the request is noted unless the task is done
Cancel(task) == IF Done(task) THEN task ELSE [task EXCEPT !.must_cancel = TRUE]

\* the application is imported with or without an OpenAI key
InitMonitor ==
  /\ db = ProbeDb
  /\ schema = InitializeSchema(DiscoverFullSchema(db)).schema
  /\ trading_elements = InitializeSchema(DiscoverFullSchema(db)).trading_elements
  /\ Discovered(db)
  /\ activities = <<>>
  /\ queryLog = <<>>
  /\ lastCall = NoCall
  /\ probe = NoProbe
  /\ monitoring_config = DefaultMonitoringConfig
  /\ monitoring_task = NoTask
  /\ tasks = <<>>
  /\ surveillance_agent \in {None, "SurveillanceAgent"}
  /\ phase = "imported"

\* the monitoring globals become c, ts and t
Monitoring(c, ts, t) ==
  /\ monitoring_config' = c
  /\ tasks' = ts
  /\ monitoring_task' = t
  /\ UNCHANGED <<db, schema, trading_elements, activities, queryLog, lastCall, probe,
                 discovery, surveillance_agent>>

\* a task is created for config when it is enabled and there is an agent
Restarted(config, ts) ==
  IF config.enabled /\ surveillance_agent # None
    THEN Monitoring(config, Append(ts, CreateTask(config)), Len(ts) + 1)
  ELSE Monitoring(config, ts, monitoring_task)

\* lifespan up to its yield
Startup ==
  /\ phase = "imported"
  /\ phase' = "serving"
  /\ Restarted(monitoring_config, tasks)

\* if monitoring_task and not monitoring_task.done(): monitoring_task.cancel()
CancelCurrent ==
  IF monitoring_task # NoTask /\ ~Done(tasks[monitoring_task])
    THEN [tasks EXCEPT ![monitoring_task] = Cancel(@)]
  ELSE tasks

\* POST /api/monitoring/config
UpdateMonitoringConfig ==
  /\ phase = "serving"
  /\ Len(tasks) < MaxTasks
  /\ UNCHANGED phase
  /\ \E config \in Configs : Restarted(config, CancelCurrent)

\* lifespan after its yield
Shutdown ==
  /\ phase = "serving"
  /\ phase' = "stopped"
  /\ Monitoring(monitoring_config,
                IF monitoring_task # NoTask
                  THEN [tasks EXCEPT ![monitoring_task] = Cancel(@)] ELSE tasks,
                monitoring_task)

\* task i is resumed and its pc becomes pc
Resumed(i, pc) ==
  /\ phase # "imported"
  /\ ~Done(tasks[i])
  /\ UNCHANGED phase
  /\ Monitoring(monitoring_config, [tasks EXCEPT ![i].pc = pc], monitoring_task)

\* CancelledError is thrown into the task at its await; `except Exception`
\* does not catch it
CancelledErrorThrown ==
  \E i \in DOMAIN tasks : tasks[i].must_cancel /\ Resumed(i, "cancelled")

\* while config.enabled: at the first step and after each sleep
LoopTest ==
  \E i \in DOMAIN tasks :
    /\ ~tasks[i].must_cancel
    /\ tasks[i].pc \in {"created", "sleep", "retry"}
    /\ Resumed(i, IF tasks[i].config.enabled THEN "cycle" ELSE "returned")

\* run_surveillance_cycle returns: await asyncio.sleep(check_interval_minutes * 60)
CycleCompleted ==
  \E i \in DOMAIN tasks :
    ~tasks[i].must_cancel /\ tasks[i].pc = "cycle" /\ Resumed(i, "sleep")

\* run_surveillance_cycle raises: await asyncio.sleep(60)
CycleRaised ==
  \E i \in DOMAIN tasks :
    ~tasks[i].must_cancel /\ tasks[i].pc = "cycle" /\ Resumed(i, "retry")

NextMonitor ==
  Startup \/ UpdateMonitoringConfig \/ Shutdown \/ CancelledErrorThrown \/
  LoopTest \/ CycleCompleted \/ CycleRaised

SpecMonitor == InitMonitor /\ [][NextMonitor]_vars

\* the tasks that are not done and on which cancel() was not called
Uncancelled == {i \in DOMAIN tasks : ~Done(tasks[i]) /\ ~tasks[i].must_cancel}

\* C30: once lifespan has started the application, whatever configs were
\* posted, at most one continuous_monitoring task is neither done nor asked
\* to cancel; it is the one monitoring_task names and it runs with the
\* config posted last; and there is none when that config has enabled false
C30_OneMonitoringTask ==
  phase = "serving" =>
    /\ Cardinality(Uncancelled) <= 1
    /\ \A i \in Uncancelled : i = monitoring_task /\ tasks[i].config = monitoring_config
    /\ ~monitoring_config.enabled => Uncancelled = {}

\* a third task runs a cycle under a posted config while the first is
\* cancelled and the second still waits for its CancelledError
C30_Witness ==
  /\ phase = "serving"
  /\ Len(tasks) = 3
  /\ Uncancelled = {3}
  /\ tasks[3].pc = "cycle"
  /\ tasks[3].config # DefaultMonitoringConfig
  /\ tasks[1].pc = "cancelled"
  /\ tasks[2].must_cancel /\ ~Done(tasks[2])

====
